---------------------------- MODULE Spec2Model ----------------------------
(***************************************************************************)
(* The booking dashboard (src/dashboard.py) and the waitlist API            *)
(* (src/api.py): tee-time extraction, the waitlist endpoints, the status   *)
(* of a booking, the automated emails, login and passwords, conversion of  *)
(* waitlist entries, payment requests and the deletion of bookings.        *)
(*                                                                         *)
(* Python values are records [tag, s, kv]:                                 *)
(*   tag = "none"  None                                                    *)
(*   tag = "nan"   float('nan') (a missing cell of a DataFrame)            *)
(*   tag = "str"   a str, its text in s                                    *)
(*   tag = "num"   an int or float, its JSON literal in s                  *)
(*   tag = "bool"  True / False, "true" / "false" in s                     *)
(*   tag = "dict"  a dict, kv its items <<key, value>> in insertion order  *)
(*   tag = "list"  a list, kv its elements as <<"", value>>                *)
(*   tag = "exc"   an exception that escaped the call, its class in s      *)
(* Strings are TLA+ strings, read one character at a time with Ch.         *)
(* The alphabet is ASCII: \s is space, \t, \n, \r, \f and \d is 0..9.      *)
(***************************************************************************)
EXTENDS Integers, Sequences, FiniteSets, TLC

\* ------------------------------------------------------------------ bounds

\* Longest run of spaces generated between a prefix and a clock time.
MaxPad == 2
\* Longest run of spaces generated between the minutes and the meridiem.
MaxGap == 1
\* The objects and arrays json.loads reads inside one another before the
\* interpreter's recursion limit (1000 frames in CPython) stops it.
RecursionLimit == 3
\* Seconds the clock of the API advances.
MaxClock == 1
\* Requests that change the waitlist table in one run.
MaxWrites == 1
\* Days the calendar of the email runs advances.
MaxDays == 1
\* Emails after which no further run is started.
MaxEmails == 3

\* Payment links after which no further payment request is made.
MaxLinks == 2

\* ------------------------------------------------------------ Python values

PyNone == [tag |-> "none", s |-> "", kv |-> <<>>]
PyNaN == [tag |-> "nan", s |-> "", kv |-> <<>>]
PyStr(t) == [tag |-> "str", s |-> t, kv |-> <<>>]
PyNum(t) == [tag |-> "num", s |-> t, kv |-> <<>>]
PyBool(t) == [tag |-> "bool", s |-> t, kv |-> <<>>]
PyDict(items) == [tag |-> "dict", s |-> "", kv |-> items]
PyList(items) == [tag |-> "list", s |-> "", kv |-> items]
PyExc(t) == [tag |-> "exc", s |-> t, kv |-> <<>>]

Ch(s, i) == SubSeq(s, i, i)

Digit == {"0", "1", "2", "3", "4", "5", "6", "7", "8", "9"}
Whitespace == {" ", "\t", "\n", "\r", "\f"}
UpperLetters == "ABCDEFGHIJKLMNOPQRSTUVWXYZ"
LowerLetters == "abcdefghijklmnopqrstuvwxyz"

\* The position of character c in the string abc, 0 when it is not there.
IndexOf(c, abc) ==
    IF \E i \in 1..Len(abc) : Ch(abc, i) = c
    THEN CHOOSE i \in 1..Len(abc) : Ch(abc, i) = c
    ELSE 0

\* The lower-case letter of every upper-case letter, and the converse.
LowerOf == [i \in 1..26 |-> Ch(LowerLetters, i)]
UpperOf == [i \in 1..26 |-> Ch(UpperLetters, i)]
UpperSet == {UpperOf[i] : i \in 1..26}
LowerSet == {LowerOf[i] : i \in 1..26}

\* str.lower() and str.upper() of one character.
lower_ch(c) == IF c \in UpperSet THEN LowerOf[IndexOf(c, UpperLetters)] ELSE c

upper_ch(c) == IF c \in LowerSet THEN UpperOf[IndexOf(c, LowerLetters)] ELSE c

RECURSIVE str_upper(_)
str_upper(s) == IF s = "" THEN "" ELSE upper_ch(Head(s)) \o str_upper(Tail(s))

RECURSIVE str_lower(_)
str_lower(s) == IF s = "" THEN "" ELSE lower_ch(Head(s)) \o str_lower(Tail(s))

\* str.strip(): whitespace removed at both ends.
RECURSIVE lstrip(_)
lstrip(s) == IF s # "" /\ Head(s) \in Whitespace THEN lstrip(Tail(s)) ELSE s

RECURSIVE rstrip(_)
rstrip(s) ==
    IF s # "" /\ Ch(s, Len(s)) \in Whitespace
    THEN rstrip(SubSeq(s, 1, Len(s) - 1))
    ELSE s

str_strip(s) == rstrip(lstrip(s))

\* bool(v): Python's truth value.
Truthy(v) ==
    CASE v.tag = "none" -> FALSE
      [] v.tag = "nan" -> TRUE
      [] v.tag = "str" -> v.s # ""
      [] v.tag = "num" -> \E i \in 1..Len(v.s) : Ch(v.s, i) \in (Digit \ {"0"})
      [] v.tag = "bool" -> v.s = "true"
      [] v.tag = "dict" -> v.kv # <<>>
      [] v.tag = "list" -> v.kv # <<>>
      [] OTHER -> FALSE

\* pd.isna(v) of a scalar.
pd_isna(v) == v.tag \in {"none", "nan"}

\* key in d and d[key]; the keys of a dict are distinct.
dict_has(d, key) == \E i \in 1..Len(d.kv) : d.kv[i][1] = key

dict_item(d, key) ==
    LET at == CHOOSE i \in 1..Len(d.kv) : d.kv[i][1] = key IN d.kv[at][2]

\* The items of a dict after d[key] = v: a key that is there keeps its place
\* and takes the new value.
dict_set(items, key, v) ==
    IF \E i \in 1..Len(items) : items[i][1] = key
    THEN [i \in 1..Len(items) |->
              IF items[i][1] = key THEN <<key, v>> ELSE items[i]]
    ELSE Append(items, <<key, v>>)

\* d.get(key): None when the key is missing.
dict_get(d, key) == IF dict_has(d, key) THEN dict_item(d, key) ELSE PyNone


\* ------------------------------------------------------- regular expressions

(***************************************************************************)
(* A pattern is a sequence of items [cs, lo, hi]: a character of the set   *)
(* cs repeated lo..hi times, greedily (hi = -1: unbounded), with one       *)
(* capture group over the items grp[1]..grp[2].  Python's re backtracks:   *)
(* each item first takes the longest run it can and gives characters back  *)
(* one at a time until the rest of the pattern matches.                    *)
(***************************************************************************)
Lit(c) == [cs |-> {c}, lo |-> 1, hi |-> 1]
Cls(set) == [cs |-> set, lo |-> 1, hi |-> 1]
Rep(set, lo, hi) == [cs |-> set, lo |-> lo, hi |-> hi]
Star(set) == [cs |-> set, lo |-> 0, hi |-> -1]
Plus(set) == [cs |-> set, lo |-> 1, hi |-> -1]

\* The items of a literal text, one per character.
LitSeq(text) == [i \in 1..Len(text) |-> Lit(Ch(text, i))]

\* Does character c match the set cs (under re.IGNORECASE when ic)?
\* Under IGNORECASE a character matches when either of its casings is in cs.
CharIn(c, cs, ic) ==
    \/ c \in cs
    \/ ic /\ (lower_ch(c) \in cs \/ upper_ch(c) \in cs)

\* The longest run of characters of cs in s from position pos, at most hi.
RECURSIVE RunLen(_, _, _, _, _)
RunLen(s, pos, cs, ic, hi) ==
    IF hi = 0 \/ pos > Len(s) \/ ~CharIn(Ch(s, pos), cs, ic)
    THEN 0
    ELSE 1 + RunLen(s, pos + 1, cs, ic, IF hi = -1 THEN -1 ELSE hi - 1)

NoMatch == [ok |-> FALSE, start |-> 0, ends |-> <<>>]

\* Items k.. of the pattern matched at position pos of s: ends[j] is the
\* position after the j-th of those items.
RECURSIVE MatchFrom(_, _, _, _, _)
RECURSIVE TryCount(_, _, _, _, _, _)
MatchFrom(items, k, s, pos, ic) ==
    IF k > Len(items)
    THEN [ok |-> TRUE, start |-> pos, ends |-> <<>>]
    ELSE TryCount(items, k, s, pos, ic,
                  RunLen(s, pos, items[k].cs, ic, items[k].hi))

TryCount(items, k, s, pos, ic, n) ==
    IF n < items[k].lo
    THEN NoMatch
    ELSE LET rest == MatchFrom(items, k + 1, s, pos + n, ic)
         IN IF rest.ok
            THEN [ok |-> TRUE, start |-> pos, ends |-> <<pos + n>> \o rest.ends]
            ELSE TryCount(items, k, s, pos, ic, n - 1)

\* re.match: the pattern at the start of s.
re_match(pat, s, ic) == MatchFrom(pat.items, 1, s, 1, ic)

\* re.search: the pattern at the leftmost position of s where it matches.
RECURSIVE SearchFrom(_, _, _, _)
SearchFrom(pat, s, pos, ic) ==
    IF pos > Len(s) + 1
    THEN NoMatch
    ELSE LET m == MatchFrom(pat.items, 1, s, pos, ic)
         IN IF m.ok THEN m ELSE SearchFrom(pat, s, pos + 1, ic)

re_search(pat, s, ic) == SearchFrom(pat, s, 1, ic)

\* match.group(0) and match.group(1) of a successful match m of pat in s.
group0(pat, s, m) == SubSeq(s, m.start, m.ends[Len(pat.items)] - 1)

group1(pat, s, m) ==
    LET from == IF pat.grp[1] = 1 THEN m.start ELSE m.ends[pat.grp[1] - 1]
    IN SubSeq(s, from, m.ends[pat.grp[2]] - 1)

\* prefix(group): a pattern of the items of prefix followed by one group.
Pattern(prefix, group) ==
    [items |-> prefix \o group,
     grp |-> <<Len(prefix) + 1, Len(prefix) + Len(group)>>]

\* \d{1,2}:\d{2}\s*[AaPp][Mm]
ClockTime ==
    <<Rep(Digit, 1, 2), Lit(":"), Rep(Digit, 2, 2), Star(Whitespace),
      Cls({"A", "a", "P", "p"}), Cls({"M", "m"})>>


\* ----------------------------------------------------------------- json.loads

\* The character of s at position i, "" beyond its ends.
ChAt(s, i) == IF i \in 1..Len(s) THEN Ch(s, i) ELSE ""

\* s[i:i+len(lit)] == lit
StartsWithAt(s, i, lit) ==
    /\ i >= 1
    /\ i + Len(lit) - 1 <= Len(s)
    /\ SubSeq(s, i, i + Len(lit) - 1) = lit

\* The whitespace json skips between tokens.
JsonWhitespace == {" ", "\t", "\n", "\r"}

SkipWs(s, i) == i + RunLen(s, i, JsonWhitespace, FALSE, -1)

\* A parse that failed, and one that read value v and stopped before next.
ParseFail == [ok |-> FALSE, v |-> PyNone, next |-> 0]
ParseOk(v, next) == [ok |-> TRUE, v |-> v, next |-> next]

\* The simple escapes of a JSON string and the characters they stand for
\* (\b and \uXXXX are not characters of the alphabet).
EscapeOf(c) ==
    CASE c = "\"" -> "\""
      [] c = "\\" -> "\\"
      [] c = "/" -> "/"
      [] c = "n" -> "\n"
      [] c = "r" -> "\r"
      [] c = "t" -> "\t"
      [] c = "f" -> "\f"
      [] OTHER -> ""

\* Characters below 0x20, which a strict decoder refuses inside a string.
ControlChars == {"\t", "\n", "\r", "\f"}

\* The string whose opening quote was just read: up to the closing quote.
RECURSIVE ScanString(_, _, _)
StringChar(s, i, acc, c) ==
    CASE c = "" -> ParseFail
      [] c = "\"" -> ParseOk(PyStr(acc), i + 1)
      [] c = "\\" ->
           IF EscapeOf(ChAt(s, i + 1)) = ""
           THEN ParseFail
           ELSE ScanString(s, i + 2, acc \o EscapeOf(ChAt(s, i + 1)))
      [] c \in ControlChars -> ParseFail
      [] OTHER -> ScanString(s, i + 1, acc \o c)

ScanString(s, i, acc) == StringChar(s, i, acc, ChAt(s, i))

\* (-?(?:0|[1-9][0-9]*))(\.[0-9]+)?([eE][-+]?[0-9]+)? at position i: the
\* integer part from j, then the fraction and the exponent when complete.
NumberExponent(s, i, end, k) ==
    IF ChAt(s, end) \in {"e", "E"} /\ RunLen(s, k, Digit, FALSE, -1) > 0
    THEN ParseOk(PyNum(SubSeq(s, i, k + RunLen(s, k, Digit, FALSE, -1) - 1)),
                 k + RunLen(s, k, Digit, FALSE, -1))
    ELSE ParseOk(PyNum(SubSeq(s, i, end - 1)), end)

NumberFraction(s, i, end) ==
    NumberExponent(s, i, end,
                   IF ChAt(s, end + 1) \in {"+", "-"} THEN end + 2 ELSE end + 1)

NumberInteger(s, i, j, intEnd) ==
    IF intEnd = j
    THEN ParseFail
    ELSE IF ChAt(s, intEnd) = "." /\ RunLen(s, intEnd + 1, Digit, FALSE, -1) > 0
    THEN NumberFraction(s, i, intEnd + 1 + RunLen(s, intEnd + 1, Digit, FALSE, -1))
    ELSE NumberFraction(s, i, intEnd)

NumberSign(s, i, j) ==
    NumberInteger(s, i, j,
                  IF ChAt(s, j) = "0" THEN j + 1 ELSE j + RunLen(s, j, Digit, FALSE, -1))

ScanNumber(s, i) == NumberSign(s, i, IF ChAt(s, i) = "-" THEN i + 1 ELSE i)

\* The constants scan_once tries after the number pattern failed.
ScanConstant(s, i) ==
    IF StartsWithAt(s, i, "NaN") THEN ParseOk(PyNaN, i + 3)
    ELSE IF StartsWithAt(s, i, "Infinity") THEN ParseOk(PyNum("Infinity"), i + 8)
    ELSE IF StartsWithAt(s, i, "-Infinity") THEN ParseOk(PyNum("-Infinity"), i + 9)
    ELSE ParseFail

NumberOrConstant(s, i, number) == IF number.ok THEN number ELSE ScanConstant(s, i)

\* scan_once: the JSON value that starts at position i.
\* A failure that is not a decode error: the exception the scanner raises.
ParseRaise(exc) == [ok |-> FALSE, v |-> PyExc(exc), next |-> 0]

\* d counts the objects and arrays that enclose the value being read.
RECURSIVE ParseValue(_, _, _)
RECURSIVE ParseMembers(_, _, _, _)
RECURSIVE ParseElements(_, _, _, _)

\* JSONObject, member by member: after a key, its colon, its value, and the
\* comma or brace that follows; items are the members read so far.
NextMember(s, items, q, d) ==
    IF ChAt(s, q) = "\"" THEN ParseMembers(s, q, items, d) ELSE ParseFail

AfterMember(s, items, after, d) ==
    IF ChAt(s, after) = "}" THEN ParseOk(PyDict(items), after + 1)
    ELSE IF ChAt(s, after) = "," THEN NextMember(s, items, SkipWs(s, after + 1), d)
    ELSE ParseFail

AfterValue(s, acc, key, val, d) ==
    IF val.ok
    THEN AfterMember(s, dict_set(acc, key, val.v), SkipWs(s, val.next), d)
    ELSE val

AfterColon(s, acc, key, colon, d) ==
    IF ChAt(s, colon) = ":"
    THEN AfterValue(s, acc, key, ParseValue(s, SkipWs(s, colon + 1), d), d)
    ELSE ParseFail

AfterKey(s, acc, key, d) ==
    IF key.ok THEN AfterColon(s, acc, key.v.s, SkipWs(s, key.next), d) ELSE ParseFail

\* The members of an object from the opening quote of a key at position i.
ParseMembers(s, i, acc, d) == AfterKey(s, acc, ScanString(s, i + 1, ""), d)

\* The object whose brace was just read, j the first position after
\* whitespace.
ParseObject(s, j, d) ==
    IF ChAt(s, j) = "}" THEN ParseOk(PyDict(<<>>), j + 1)
    ELSE IF ChAt(s, j) = "\"" THEN ParseMembers(s, j, <<>>, d)
    ELSE ParseFail

\* JSONArray, element by element.
AfterElement(s, items, after, d) ==
    IF ChAt(s, after) = "]" THEN ParseOk(PyList(items), after + 1)
    ELSE IF ChAt(s, after) = "," THEN ParseElements(s, SkipWs(s, after + 1), items, d)
    ELSE ParseFail

ElementValue(s, acc, val, d) ==
    IF val.ok
    THEN AfterElement(s, Append(acc, <<"", val.v>>), SkipWs(s, val.next), d)
    ELSE val

ParseElements(s, i, acc, d) == ElementValue(s, acc, ParseValue(s, i, d), d)

ParseArray(s, j, d) ==
    IF ChAt(s, j) = "]" THEN ParseOk(PyList(<<>>), j + 1)
    ELSE ParseElements(s, j, <<>>, d)

\* Py_EnterRecursiveCall in front of an object or an array: RecursionError
\* when RecursionLimit of them enclose it already.
EnterContainer(s, i, c, d) ==
    IF d >= RecursionLimit THEN ParseRaise("RecursionError")
    ELSE IF c = "{" THEN ParseObject(s, SkipWs(s, i + 1), d + 1)
    ELSE ParseArray(s, SkipWs(s, i + 1), d + 1)

ValueAt(s, i, c, d) ==
    CASE c = "\"" -> ScanString(s, i + 1, "")
      [] c \in {"{", "["} -> EnterContainer(s, i, c, d)
      [] c = "n" /\ StartsWithAt(s, i, "null") -> ParseOk(PyNone, i + 4)
      [] c = "t" /\ StartsWithAt(s, i, "true") -> ParseOk(PyBool("true"), i + 4)
      [] c = "f" /\ StartsWithAt(s, i, "false") -> ParseOk(PyBool("false"), i + 5)
      [] OTHER -> NumberOrConstant(s, i, ScanNumber(s, i))

ParseValue(s, i, d) == ValueAt(s, i, ChAt(s, i), d)

\* json.loads(s): the value of the whole text, or the exception raised:
\* what the scanner raised, or JSONDecodeError.
WholeText(s, r) ==
    IF r.ok /\ SkipWs(s, r.next) = Len(s) + 1 THEN r.v
    ELSE IF ~r.ok /\ r.v.tag = "exc" THEN r.v
    ELSE PyExc("JSONDecodeError")

json_loads(s) == WholeText(s, ParseValue(s, SkipWs(s, 1), 0))

\* ---------------------------------------------------------------- extractors

\* str(x): a str is itself, None is "None" and a NaN is "nan".
py_str(v) ==
    CASE v.tag = "none" -> "None"
      [] v.tag = "nan" -> "nan"
      [] OTHER -> v.s

\* A variant with a fourth pattern, a clock time without any prefix.
patterns_WithBare ==
    <<Pattern(LitSeq("Time:") \o <<Star(Whitespace)>>, ClockTime),
      Pattern(LitSeq("time:") \o <<Star(Whitespace)>>, ClockTime),
      Pattern(LitSeq("Tee") \o <<Plus(Whitespace)>> \o LitSeq("Time:")
                  \o <<Star(Whitespace)>>, ClockTime),
      Pattern(<<>>, ClockTime)>>

\* A variant whose patterns leave out the \s* after the prefix, as the
\* pattern of selected_tee_times does.
patterns_NoSpace ==
    <<Pattern(LitSeq("Time:"), ClockTime),
      Pattern(LitSeq("time:"), ClockTime),
      Pattern(LitSeq("Tee") \o <<Plus(Whitespace)>> \o LitSeq("Time:"), ClockTime)>>

\* dashboard.py, extract_tee_time_from_note: the list `patterns`.
\*   Time:\s*(\d{1,2}:\d{2}\s*[AaPp][Mm])
\*   time:\s*(\d{1,2}:\d{2}\s*[AaPp][Mm])
\*   Tee\s+Time:\s*(\d{1,2}:\d{2}\s*[AaPp][Mm])
patterns ==
    <<Pattern(LitSeq("Time:") \o <<Star(Whitespace)>>, ClockTime),
      Pattern(LitSeq("time:") \o <<Star(Whitespace)>>, ClockTime),
      Pattern(LitSeq("Tee") \o <<Plus(Whitespace)>> \o LitSeq("Time:")
                  \o <<Star(Whitespace)>>, ClockTime)>>

\* A variant that searches the note without re.IGNORECASE.
NoteIgnoreCase_Off == FALSE

\* The flags every pattern of the note is searched with: re.IGNORECASE.
NoteIgnoreCase == TRUE

\* A variant that returns the match without .upper().
NormalizeMatch_NoUpper(pat, s, m) == str_strip(group1(pat, s, m))

\* A variant that drops the leading zero of a two-digit hour.
NormalizeMatch_NoLeadingZero(pat, s, m) ==
    LET t == str_upper(str_strip(group1(pat, s, m)))
    IN IF Len(t) > 1 /\ Ch(t, 1) = "0" /\ Ch(t, 2) \in Digit THEN Tail(t) ELSE t

\* tee_time = match.group(1).strip(); return tee_time.upper()
NormalizeMatch(pat, s, m) == str_upper(str_strip(group1(pat, s, m)))

\* for pattern in patterns: the first pattern that matches decides.
RECURSIVE FirstPattern(_, _, _)
FirstPattern(pats, k, s) ==
    IF k > Len(pats)
    THEN PyNone
    ELSE LET m == re_search(pats[k], s, NoteIgnoreCase)
         IN IF m.ok
            THEN PyStr(NormalizeMatch(pats[k], s, m))
            ELSE FirstPattern(pats, k + 1, s)

\* A variant without the guard and without str(): re.search raises TypeError
\* on anything that is not a str.
extract_tee_time_from_note_Unguarded(note_content) ==
    IF note_content.tag # "str"
    THEN PyExc("TypeError")
    ELSE FirstPattern(patterns, 1, note_content.s)

extract_tee_time_from_note(note_content) ==
    IF ~Truthy(note_content) \/ pd_isna(note_content)
    THEN PyNone
    ELSE FirstPattern(patterns, 1, py_str(note_content))

\* A variant whose except clause names a class json.loads never raises.
CaughtByExcept_KeyError == {"KeyError"}

\* The exception classes of `except (json.JSONDecodeError, ValueError)`.
CaughtByExcept == {"JSONDecodeError", "ValueError"}

\* time:(\d{1,2}:\d{2}\s*[AaPp][Mm]), searched without flags.
MapTimePattern == Pattern(LitSeq("time:"), ClockTime)

\* A variant that searches the map pattern with re.IGNORECASE.
MapTimeIgnoreCase_On == TRUE

MapTimeIgnoreCase == FALSE

\* \d{1,2}:\d{2}\s*[AaPp][Mm], matched at the start of the string.
BareTimePattern == Pattern(<<>>, ClockTime)

\* The regular-expression part of the str branch.
MatchSelectedText(text) ==
    LET map_time_match == re_search(MapTimePattern, text, MapTimeIgnoreCase)
    IN IF map_time_match.ok
       THEN PyStr(str_strip(group1(MapTimePattern, text, map_time_match)))
       ELSE IF re_match(BareTimePattern, text, FALSE).ok
       THEN PyStr(text)
       ELSE PyNone

\* A variant that normalizes the "time" member like a match of the note.
AfterJson_Normalizing(text, data) ==
    IF data.tag = "exc"
    THEN IF data.s \in CaughtByExcept THEN MatchSelectedText(text) ELSE data
    ELSE IF data.tag = "dict" /\ dict_has(data, "time")
    THEN PyStr(str_upper(str_strip(dict_item(data, "time").s)))
    ELSE MatchSelectedText(text)

\* The str branch: what json.loads returned or raised decides whether the two
\* patterns are tried.
AfterJson(text, data) ==
    IF data.tag = "exc"
    THEN IF data.s \in CaughtByExcept THEN MatchSelectedText(text) ELSE data
    ELSE IF data.tag = "dict" /\ dict_has(data, "time")
    THEN dict_item(data, "time")
    ELSE MatchSelectedText(text)

ExtractFromText(text) == AfterJson(text, json_loads(text))

extract_tee_time_from_selected_tee_times(selected_tee_times) ==
    IF ~Truthy(selected_tee_times) THEN PyNone
    ELSE IF selected_tee_times.tag = "dict" THEN dict_get(selected_tee_times, "time")
    ELSE IF selected_tee_times.tag = "str" THEN ExtractFromText(selected_tee_times.s)
    ELSE PyNone

\* The second and third source of get_tee_time_from_booking.
FromNote(booking) ==
    LET extracted == IF Truthy(booking.note)
                     THEN extract_tee_time_from_note(booking.note)
                     ELSE PyNone
    IN IF Truthy(extracted) THEN extracted ELSE PyStr("TBD")

\* A variant that tests `extracted is not None` instead of its truth value.
FromSelected_NotNone(booking) ==
    LET extracted == IF Truthy(booking.selected_tee_times)
                     THEN extract_tee_time_from_selected_tee_times(
                              booking.selected_tee_times)
                     ELSE PyNone
    IN IF extracted # PyNone THEN extracted ELSE FromNote(booking)

FromSelected(booking) ==
    LET extracted == IF Truthy(booking.selected_tee_times)
                     THEN extract_tee_time_from_selected_tee_times(
                              booking.selected_tee_times)
                     ELSE PyNone
    IN IF extracted.tag = "exc" \/ Truthy(extracted)
       THEN extracted
       ELSE FromNote(booking)

\* A variant that normalizes the direct field like a match of the note.
get_tee_time_from_booking_Normalizing(booking) ==
    IF Truthy(booking.tee_time)
    THEN PyStr(str_upper(str_strip(booking.tee_time.s)))
    ELSE FromSelected(booking)

get_tee_time_from_booking(booking) ==
    IF Truthy(booking.tee_time) THEN booking.tee_time ELSE FromSelected(booking)


\* -------------------------------------------------------------------- inputs

RECURSIVE SpaceRun(_)
SpaceRun(n) == IF n = 0 THEN "" ELSE " " \o SpaceRun(n - 1)

\* Whitespace between a prefix and a clock time, and inside a clock time.
Pads == {SpaceRun(n) : n \in 0..MaxPad} \cup {"\t", "\n "}
Gaps == {SpaceRun(n) : n \in 0..MaxGap} \cup {"\n"}

\* "Time:" and "AM" in every letter casing.
TimeCasings ==
    {a \o b \o c \o d \o ":" :
        a \in {"T", "t"}, b \in {"I", "i"}, c \in {"M", "m"}, d \in {"E", "e"}}

AmCasings == {a \o b : a \in {"A", "a"}, b \in {"M", "m"}}

\* Notes that hold "Time: 9:05 AM" in some casing, with text around it.
NoteBefore ==
    {"", "Customer requested ", "Tee ", "at 7:00 PM, ", "Time: 7:00 PM, then "}

NoteAfter == {"", " for 4 players"}

CasingNotes ==
    {b \o kw \o " 9:05 " \o am \o a :
        b \in NoteBefore, kw \in TimeCasings, am \in AmCasings, a \in NoteAfter}

\* Notes that vary the prefix in front of a clock time.
NotePrefixes ==
    {"Time:", "Tee Time:", "Tee  Time:", "TeeTime:", "Time", "Tim:", "ime:",
     "Time;", "Time :", ""}

PrefixNotes ==
    {b \o kw \o pad \o tok :
        b \in {"", "See you Saturday ", "Tee "}, kw \in NotePrefixes,
        pad \in Pads, tok \in {"9:05 AM", "12:20 pm", "13:99 PM"}}

\* Notes that vary the shape of the clock time after "Time: ".
ShapeNotes ==
    {"Time: " \o h \o ":" \o m \o gap \o mer \o a :
        h \in {"9", "07", "12", "123", ""}, m \in {"05", "5", "059"},
        gap \in Gaps, mer \in {"AM", "pm", "A", "XM", "M", ""}, a \in {"", "s"}}

\* The notes of the specification's scenarios.
ScenarioNotes ==
    {"Customer requested Time: 12:20 pm for 4 players",
     "Tee Time: 07:05 AM please confirm",
     "See you Saturday",
     "9:05 AM",
     "Time: 9:00 AM"}

NoteTexts == CasingNotes \cup PrefixNotes \cup ShapeNotes \cup ScenarioNotes

NoteValues == {PyNone, PyNaN, PyStr("")} \cup {PyStr(n) : n \in NoteTexts}

NoteSamples ==
    {PyNone, PyStr(""), PyStr("See you Saturday"), PyStr("Time: 9:00 AM"),
     PyStr("tee time: 12:20 pm")}

\* The direct tee_time column: NULL, empty, or any text.
TeeTimeValues == {PyNone, PyStr(""), PyStr("14:00"), PyStr("9:00 am"), PyStr(" ")}

\* JSON objects with a "time" member, other members before and after it.
JsonTimes == {"6:30 AM", "3:45 pm", " 3:45 PM ", "", "time:7:15 PM", "TBD"}

JsonObjectText(before, time, after) ==
    "{" \o before \o "\"time\": \"" \o time \o "\"" \o after \o "}"

JsonObjectTexts ==
    {JsonObjectText(b, v, a) :
        b \in {"", "\"course\": \"North\", ", "\"time\": \"1:11 AM\", "},
        v \in JsonTimes,
        a \in {"", ", \"course\": \"North\"", ", \"alt\": \"time:7:15 PM\""}}

\* Other texts that are valid JSON.
JsonOtherTexts ==
    {"{\"time\": null}", "{\"time\": 0}", "{\"time\": 930}", "{\"time\": false}",
     "{\"time\": [\"6:30 AM\"]}", "{\"Time\": \"6:30 AM\"}",
     "{\"course\": \"North\"}", "{}", "[]", "[\"time:7:15 PM\"]",
     "[{\"time\": \"6:30 AM\"}]", "\"time:7:15 PM\"", "\"6:30 AM\"", "12", "null",
     " {\"time\": \"6:30 AM\"}\n", "{ \"time\" : \"6:30\\tAM\" }"}

\* Texts that are not JSON.
MalformedTexts ==
    {"{not valid json", "{\"time\": \"9:00 AM\"", "{\"time\": \"9:00 AM\",}",
     "{'time': '9:00 AM'}", "{\"time\": \"9:00 AM\"} trailing",
     "{\"time\": 9:00 AM}", "{\"time\" \"9:00 AM\"}", "[\"9:00 AM\",]",
     "{\"time\": \"9:00\tAM\"}", "9:05 AM", "12:30PM", " 9:05 AM",
     "9:05 AM, time:10:10 pm", "9:05 AM or 10:10 AM", "09:5 AM", "9:05", "tbd",
     "Not specified"}

\* Texts that embed a prefix and a clock time: "{time:9:00 AM}" and the like.
MapPrefixes == {"time:", "Time:", "TIME:", "tIme:", "time: ", "time"}

MapTexts ==
    {b \o kw \o tok \o a :
        b \in {"", "{", "tee "}, kw \in MapPrefixes,
        tok \in {"9:00 AM", "10:30am", "13:99" \o SpaceRun(MaxGap + 1) \o "pM"},
        a \in {"", "}", ", time:1:11 PM"}}

\* Texts that open objects or arrays inside one another.
RECURSIVE Nested(_, _)
Nested(open, n) == IF n = 0 THEN "" ELSE open \o Nested(open, n - 1)

DeepTexts ==
    {Nested("[", RecursionLimit), Nested("[", RecursionLimit + 1),
     Nested("{\"a\": ", RecursionLimit + 1),
     Nested("[", RecursionLimit) \o "1" \o Nested("]", RecursionLimit),
     Nested("[", RecursionLimit + 1) \o "1" \o Nested("]", RecursionLimit + 1),
     Nested("[", RecursionLimit + 1) \o "time:9:00 AM",
     "time:9:00 AM " \o Nested("[", RecursionLimit + 1)}

SelectedTexts ==
    JsonObjectTexts \cup JsonOtherTexts \cup MalformedTexts \cup MapTexts \cup DeepTexts

\* A JSONB column arrives as a dict or a list, a text column as a str.
SelectedObjects ==
    {PyNone, PyStr(""), PyDict(<<>>), PyList(<<>>),
     PyDict(<< <<"time", PyStr("3:45 pm")>> >>),
     PyDict(<< <<"time", PyStr(" 3:45 PM ")>> >>),
     PyDict(<< <<"time", PyStr("")>> >>),
     PyDict(<< <<"time", PyNone>> >>),
     PyDict(<< <<"course", PyStr("North")>> >>),
     PyDict(<< <<"course", PyStr("North")>>, <<"time", PyStr("6:30 AM")>> >>),
     PyList(<< <<"", PyStr("9:00 AM")>> >>)}

SelectedValues == SelectedObjects \cup {PyStr(x) : x \in SelectedTexts}

SelectedSamples ==
    SelectedObjects
        \cup {PyStr("{\"time\": \"6:30 AM\", \"course\": \"North\"}"),
              PyStr("{not valid json"), PyStr("time:9:00 AM"), PyStr("9:05 AM"),
              PyStr(Nested("[", RecursionLimit + 1))}

Booking(t, sel, n) == [tee_time |-> t, selected_tee_times |-> sel, note |-> n]

\* The booking rows the extractors are applied to.
Bookings ==
    {Booking(t, sel, n) :
        t \in TeeTimeValues, sel \in SelectedSamples, n \in NoteSamples}
    \cup {Booking(PyNone, sel, n) :
            sel \in SelectedValues, n \in {PyNone, PyStr("Time: 9:00 AM")}}
    \cup {Booking(PyNone, PyNone, n) : n \in NoteValues}


\* ------------------------------------------------ waitlist API (src/api.py)

\* str.replace(old, new), old not empty.
RECURSIVE str_replace(_, _, _)
str_replace(s, old, new) ==
    IF Len(s) < Len(old) THEN s
    ELSE IF SubSeq(s, 1, Len(old)) = old
    THEN new \o str_replace(SubSeq(s, Len(old) + 1, Len(s)), old, new)
    ELSE Ch(s, 1) \o str_replace(SubSeq(s, 2, Len(s)), old, new)

\* os.getenv("WAITLIST_API_KEY", "your-secret-key-here"): the default when
\* the variable is not set, else its value, the empty one included.
ApiKeys == {"your-secret-key-here", ""}

\* The X-API-Key and Authorization headers of a request, None when absent.
Headers(x, a) == [x_api_key |-> x, authorization |-> a]

RequestHeaders ==
    {Headers(PyNone, PyNone),
     Headers(PyStr("your-secret-key-here"), PyNone),
     Headers(PyNone, PyStr("Bearer your-secret-key-here")),
     Headers(PyStr("wrong"), PyStr("Bearer your-secret-key-here")),
     Headers(PyNone, PyStr("Bearer your-secretBearer -key-here"))}

\* The test of the decorator: True when the wrapped handler is called.
\*   api_key = headers.get('X-API-Key')
\*             or headers.get('Authorization', '').replace('Bearer ', '')
require_api_key(headers, key) ==
    LET authorization == IF headers.authorization = PyNone
                         THEN ""
                         ELSE headers.authorization.s
        api_key == IF Truthy(headers.x_api_key)
                   THEN headers.x_api_key
                   ELSE PyStr(str_replace(authorization, "Bearer ", ""))
    IN ~(api_key # PyStr(key))

\* Bodies of POST /api/waitlist/add as request.get_json() returns them; None
\* is a request without a JSON body.
AddPayloads ==
    {PyDict(<< <<"guest_email", PyStr("ann@example.com")>>,
             <<"requested_date", PyStr("2024-03-15")>>,
             <<"club", PyStr("island")>> >>),
     PyDict(<< <<"guest_email", PyStr("ann@example.com")>>,
             <<"requested_date", PyStr("2024-03-16")>>,
             <<"club", PyStr("island")>>, <<"priority", PyNum("9")>> >>),
     PyDict(<< <<"guest_email", PyStr("bob@example.com")>>,
             <<"requested_date", PyStr("2024-03-15")>>,
             <<"club", PyStr("island")>> >>),
     PyDict(<< <<"guest_email", PyStr("bob@example.com")>>,
             <<"requested_date", PyStr("2024-03-15")>>,
             <<"club", PyStr("lahinch")>>, <<"priority", PyNum("9")>> >>),
     PyDict(<< <<"guest_email", PyStr("")>>,
             <<"requested_date", PyStr("2024-03-15")>>,
             <<"club", PyStr("island")>> >>),
     PyDict(<< <<"guest_email", PyStr("ann@example.com")>>,
             <<"club", PyStr("island")>> >>),
     PyNone}

\* Bodies of PATCH /api/waitlist/update/<waitlist_id>.
UpdatePayloads ==
    {PyDict(<<>>),
     PyDict(<< <<"guest_email", PyStr("eve@example.com")>> >>),
     PyDict(<< <<"status", PyStr("Cancelled")>> >>),
     PyDict(<< <<"status", PyStr("Notified")>>, <<"notification_sent", PyBool("true")>> >>),
     PyDict(<< <<"notification_sent", PyBool("false")>>, <<"notes", PyStr("called")>> >>),
     PyDict(<< <<"priority", PyNum("9")>> >>),
     PyNone}

\* Query strings of GET /api/waitlist/matches and /api/waitlist/check.
Queries ==
    {PyDict(<< <<"date", PyStr("2024-03-15")>>, <<"club", PyStr("island")>>,
             <<"email", PyStr("ann@example.com")>> >>),
     PyDict(<< <<"date", PyStr("2024-03-15")>>, <<"club", PyStr("lahinch")>>,
             <<"email", PyStr("bob@example.com")>> >>),
     PyDict(<< <<"club", PyStr("island")>>, <<"email", PyStr("ann@example.com")>> >>),
     PyDict(<< <<"date", PyStr("2024-03-16")>> >>)}

\* An INTEGER column from a JSON number of one digit.
sql_integer(v) == IndexOf(v.s, "0123456789") - 1

\* datetime.now().strftime('%Y%m%d%H%M%S') in second t of the clock.
strftime(t) == "2024030112000" \o Ch("0123456789", t + 1)

\* hash(guest_email) % 10000 as four digits: fixed for one process.
hash_mod(guest_email) ==
    CASE guest_email = "ann@example.com" -> "0417"
      [] guest_email = "bob@example.com" -> "9032"
      [] OTHER -> "5521"

\* f"WL-{datetime.now().strftime('%Y%m%d%H%M%S')}-{hash(email) % 10000:04d}"
generate_waitlist_id(data, t) ==
    "WL-" \o strftime(t) \o "-" \o hash_mod(dict_item(data, "guest_email").s)

\* The row that the INSERT makes of a body: status, notification_sent,
\* notification_sent_at, created_at and updated_at take the defaults of the
\* table. notification_sent_at is <<>> when NULL. The columns that are only
\* stored (guest_name, preferred_time, time_flexibility, players,
\* golf_course, opt_in_confirmed, original_booking_request) are left out.
InsertedRow(data, id, t) ==
    [waitlist_id |-> id,
     guest_email |-> dict_item(data, "guest_email").s,
     requested_date |-> dict_item(data, "requested_date").s,
     club |-> dict_item(data, "club").s,
     status |-> "Waiting",
     priority |-> IF dict_has(data, "priority")
                  THEN sql_integer(dict_item(data, "priority"))
                  ELSE 5,
     notes |-> IF dict_has(data, "notes") THEN dict_item(data, "notes").s ELSE "",
     notification_sent |-> FALSE,
     notification_sent_at |-> <<>>,
     created_at |-> t,
     updated_at |-> t,
     source |-> "email_bot"]

\* SELECT ... WHERE guest_email = %s AND requested_date = %s AND club = %s
\*            AND status IN ('Waiting', 'Notified')
SelectActive(rows, data) ==
    {r \in rows :
        /\ r.guest_email = dict_item(data, "guest_email").s
        /\ r.requested_date = dict_item(data, "requested_date").s
        /\ r.club = dict_item(data, "club").s
        /\ r.status \in {"Waiting", "Notified"}}

\* A variant that sets status and leaves every other field of the body out.
UpdatedRow_StatusOnly(row, data, t) ==
    [row EXCEPT
        !.status = IF dict_has(data, "status") THEN dict_item(data, "status").s ELSE @,
        !.updated_at = t]

\* The row after UPDATE waitlist SET <the fields of the body> , updated_at =
\* NOW() WHERE waitlist_id = %s.
UpdatedRow(row, data, t) ==
    [row EXCEPT
        !.status = IF dict_has(data, "status") THEN dict_item(data, "status").s ELSE @,
        !.notification_sent =
            IF dict_has(data, "notification_sent")
            THEN dict_item(data, "notification_sent") = PyBool("true")
            ELSE @,
        !.notification_sent_at =
            IF dict_has(data, "notification_sent")
                   /\ Truthy(dict_item(data, "notification_sent"))
            THEN <<t>>
            ELSE @,
        !.notes = IF dict_has(data, "notes") THEN dict_item(data, "notes").s ELSE @,
        !.priority = IF dict_has(data, "priority")
                     THEN sql_integer(dict_item(data, "priority"))
                     ELSE @,
        !.updated_at = t]

\* A variant that also selects the entries that were notified.
SelectMatches_WithNotified(rows, club, date) ==
    {r \in rows :
        r.club = club /\ r.requested_date = date /\ r.status \in {"Waiting", "Notified"}}

\* SELECT ... WHERE club = %s AND requested_date = %s AND status = 'Waiting'
SelectMatches(rows, club, date) ==
    {r \in rows : r.club = club /\ r.requested_date = date /\ r.status = "Waiting"}

\* ORDER BY priority DESC, created_at ASC: a stands before b.
OrderByPriority(a, b) ==
    \/ a.priority > b.priority
    \/ a.priority = b.priority /\ a.created_at < b.created_at

\* ORDER BY requested_date ASC, created_at DESC (dates in ISO form compare
\* as the texts of the model do by their last digit).
OrderByDate(a, b) ==
    \/ sql_integer(PyStr(Ch(a.requested_date, 10)))
           < sql_integer(PyStr(Ch(b.requested_date, 10)))
    \/ a.requested_date = b.requested_date /\ a.created_at > b.created_at

\* ORDER BY created_at DESC
OrderByNewest(a, b) == a.created_at > b.created_at

\* cursor.fetchall(): the rows in an order the ORDER BY allows; rows it does
\* not tell apart come in any order.
FetchAll(rows, order_by) ==
    LET Before(a, b) == CASE order_by = "priority DESC, created_at ASC" ->
                                 OrderByPriority(a, b)
                          [] order_by = "requested_date ASC, created_at DESC" ->
                                 OrderByDate(a, b)
                          [] order_by = "created_at DESC" -> OrderByNewest(a, b)
    IN {seq \in [1..Cardinality(rows) -> rows] :
           \A i \in 1..Cardinality(rows) : \A j \in (i + 1)..Cardinality(rows) :
               seq[i] # seq[j] /\ ~Before(seq[j], seq[i])}

\* The waitlist tables the API is started on: empty; one open entry; a
\* converted and an expired entry; two open entries and a notified one for
\* one date and club.
SeedTables ==
    LET ann == InsertedRow(
                   PyDict(<< <<"guest_email", PyStr("ann@example.com")>>,
                           <<"requested_date", PyStr("2024-03-15")>>,
                           <<"club", PyStr("island")>> >>),
                   "WL-20240301120000-0417", 0)
        bob == InsertedRow(
                   PyDict(<< <<"guest_email", PyStr("bob@example.com")>>,
                           <<"requested_date", PyStr("2024-03-15")>>,
                           <<"club", PyStr("island")>>, <<"priority", PyNum("9")>> >>),
                   "WL-20240301120000-9032", 0)
        cat == InsertedRow(
                   PyDict(<< <<"guest_email", PyStr("cat@example.com")>>,
                           <<"requested_date", PyStr("2024-03-15")>>,
                           <<"club", PyStr("island")>>, <<"priority", PyNum("7")>> >>),
                   "WL-20240301120000-5521", 0)
    IN {{}, {ann},
        {UpdatedRow(ann, PyDict(<< <<"status", PyStr("Converted")>> >>), 0),
         UpdatedRow(bob, PyDict(<< <<"status", PyStr("Expired")>> >>), 0)},
        {ann, bob,
         UpdatedRow(cat, PyDict(<< <<"status", PyStr("Notified")>>,
                                   <<"notification_sent", PyBool("true")>> >>), 0)}}

NoRequest == [endpoint |-> "", headers |-> Headers(PyNone, PyNone), id |-> "", data |-> PyNone]
\* The body of a response, shortened to its waitlist_id, its entries or
\* matches, and its count of them.
Body(waitlist_id, rows) ==
    [waitlist_id |-> waitlist_id, rows |-> rows, count |-> Len(rows)]

NoResponse == [code |-> 0, body |-> Body("", <<>>)]

\* One element of 'matches' in the response of GET /api/waitlist/matches.
MatchJson(match) ==
    [waitlist_id |-> match.waitlist_id,
     guest_email |-> match.guest_email,
     requested_date |-> match.requested_date,
     priority |-> match.priority,
     notes |-> match.notes]

\* One element of 'entries' in the response of GET /api/waitlist/check.
EntryJson(entry) ==
    [waitlist_id |-> entry.waitlist_id,
     guest_email |-> entry.guest_email,
     requested_date |-> entry.requested_date,
     status |-> entry.status,
     priority |-> entry.priority,
     created_at |-> entry.created_at,
     notification_sent |-> entry.notification_sent]

\* The waitlist_id of a PATCH or DELETE that no entry has.
UnknownId == "WL-20230101000000-0000"

\* ------------------------------------------- booking status (src/dashboard.py)

\* The statuses a booking row can hold: those of the status filter.
BookingStatuses ==
    {"Inquiry", "Requested", "Confirmed", "Booked", "Rejected", "Cancelled", "Pending"}

\* The options of the "Change Status To:" dropdown.
all_statuses == <<"Inquiry", "Requested", "Confirmed", "Booked", "Rejected", "Cancelled">>

\* The option the dropdown shows first:
\*   all_statuses.index(current_status) if current_status in all_statuses else 0
\* (0-based in the source, 1-based here).
current_index(current) ==
    IF \E i \in 1..Len(all_statuses) : all_statuses[i] = current
    THEN CHOOSE i \in 1..Len(all_statuses) : all_statuses[i] = current
    ELSE 1

\* st.session_state.username of the staff who use the dashboard.
Usernames == {"admin", "maria"}

\* --------------------------------------------------------------- state machine

VARIABLES
    booking,    \* the booking row the calls are made on
    op,         \* the last call: "idle" before the first
    arg,        \* the argument of the last call of an extractor
    result,     \* what the last call returned
    prev        \* the result that the last call's argument was built from

VARIABLES
    API_SECRET_KEY,     \* the key the API was started with
    waitlist,           \* the rows of the waitlist table
    now,                \* the clock, in seconds
    writes,             \* requests that have changed the table
    request,            \* the last request the API received
    response,           \* its response
    executed            \* the SQL statements its handler executed

VARIABLES
    current_status,         \* bookings.status of the booking on display
    updated_by,             \* bookings.updated_by of that booking
    status_select,          \* st.session_state.status_select_<booking_id>
    auto_include_status     \* st.session_state.auto_include_status

vars == <<booking, op, arg, result, prev>>

apiVars == <<API_SECRET_KEY, waitlist, now, writes, request, response, executed>>

VARIABLES
    email_bookings,     \* the rows of bookings the email runs read
    has_tracking,       \* the email types whose ..._email_sent_at column exists
    today,              \* the day of the calendar
    outbox,             \* the emails SendGrid accepted
    run                 \* the last email run and how it ended

VARIABLES
    users,              \* the rows of dashboard_users
    session,            \* st.session_state of the login
    screen,             \* the screen the last run of the script rendered
    auth_op             \* the last login, password or logout handler and its inputs

VARIABLES
    handlers            \* the POST /api/waitlist/add requests in progress, by thread

VARIABLES
    waitlist_table,     \* the rows of waitlist the dashboard works on
    bookings_table,     \* the rows of bookings
    waitlist_df,        \* the entries the waitlist page has loaded
    clock,              \* the second of datetime.now() in the dashboard
    convert_result      \* the last call of convert_waitlist_to_booking

VARIABLES
    payments,           \* the rows of payments
    payment_status,     \* bookings.payment_status by booking_id
    payment_links,      \* the payment links Stripe has created
    payment_emails,     \* the payment request emails SendGrid accepted
    pay_clock,          \* the second of datetime.now() of the payment request
    payment_request     \* the last "Send Payment Request" and what the page showed

VARIABLES
    confirm_delete,     \* the booking_ids whose confirm_delete_<booking_id> is True
    delete_op           \* the last button of the Danger Zone and its booking

statusVars == <<current_status, updated_by, status_select, auto_include_status>>

emailVars == <<email_bookings, has_tracking, today, outbox, run>>

authVars == <<users, session, screen, auth_op>>

concVars == <<handlers>>

convertVars == <<waitlist_table, bookings_table, waitlist_df, clock, convert_result>>

payVars == <<payments, payment_status, payment_links, payment_emails, pay_clock, payment_request>>

delVars == <<confirm_delete, delete_op>>

laterVars == <<emailVars, authVars, concVars, convertVars, payVars, delVars>>

\* No email run has been started.
NoRun == [kind |-> "", dry_run |-> FALSE, outcome |-> "", selected |-> {},
          sent_count |-> 0, failed_count |-> 0]

EmailIdle ==
    /\ email_bookings = {}
    /\ has_tracking = {}
    /\ today = 0
    /\ outbox = {}
    /\ run = NoRun

\* st.session_state as the script initialises it: None is "" and, for
\* user_id, 0.
InitialSession ==
    [authenticated |-> FALSE,
     customer_id |-> "",
     username |-> "",
     full_name |-> "",
     user_id |-> 0,
     must_change_password |-> FALSE,
     show_password_change |-> FALSE]

NoAuthOp == [name |-> "", username |-> "", password |-> "", ok |-> FALSE]

AuthIdle ==
    /\ users = {}
    /\ session = InitialSession
    /\ screen = ""
    /\ auth_op = NoAuthOp

ConcIdle ==
    /\ handlers = <<>>

\* calls is the number of calls of convert_waitlist_to_booking modulo 2.
NoConvert == [calls |-> 0, success |-> FALSE, booking_id |-> "", waitlist_id |-> ""]

ConvertIdle ==
    /\ waitlist_table = {}
    /\ bookings_table = {}
    /\ waitlist_df = {}
    /\ clock = 0
    /\ convert_result = NoConvert

\* calls is the number of clicks of "Send Payment Request" modulo 2.
NoPaymentRequest == [calls |-> 0, booking_id |-> "", message |-> ""]

PayIdle ==
    /\ payments = {}
    /\ payment_status = <<>>
    /\ payment_links = {}
    /\ payment_emails = {}
    /\ pay_clock = 0
    /\ payment_request = NoPaymentRequest

NoDelete == [button |-> "", booking_id |-> "", deleted |-> FALSE]

DelIdle ==
    /\ confirm_delete = {}
    /\ delete_op = NoDelete

\* The API before its first request, on an empty table.
ApiIdle ==
    /\ API_SECRET_KEY = "your-secret-key-here"
    /\ waitlist = {}
    /\ now = 0
    /\ writes = 0
    /\ request = NoRequest
    /\ response = NoResponse
    /\ executed = <<>>

\* The dashboard with a new booking on display and a new session.
StatusIdle ==
    /\ current_status = "Inquiry"
    /\ updated_by = ""
    /\ status_select = "Inquiry"
    /\ auto_include_status = {}

\* No extractor has been called.
ExtractorIdle ==
    /\ booking = Booking(PyNone, PyNone, PyNone)
    /\ op = "idle"
    /\ arg = PyNone
    /\ result = PyNone
    /\ prev = PyNone

\* Every part of the system but those named is as it starts.
IdleExcept(parts) ==
    /\ IF "extractor" \in parts THEN TRUE ELSE ExtractorIdle
    /\ IF "api" \in parts THEN TRUE ELSE ApiIdle
    /\ IF "status" \in parts THEN TRUE ELSE StatusIdle
    /\ IF "email" \in parts THEN TRUE ELSE EmailIdle
    /\ IF "auth" \in parts THEN TRUE ELSE AuthIdle
    /\ IF "conc" \in parts THEN TRUE ELSE ConcIdle
    /\ IF "convert" \in parts THEN TRUE ELSE ConvertIdle
    /\ IF "pay" \in parts THEN TRUE ELSE PayIdle
    /\ IF "del" \in parts THEN TRUE ELSE DelIdle

Init ==
    /\ booking \in Bookings
    /\ op = "idle"
    /\ arg = PyNone
    /\ result = PyNone
    /\ prev = PyNone
    /\ IdleExcept({"extractor"})

\* get_tee_time_from_booking(booking), as the email senders call it.
GetTeeTime ==
    /\ op' = "get_tee_time"
    /\ arg' = PyNone
    /\ result' = get_tee_time_from_booking(booking)
    /\ prev' = PyNone
    /\ UNCHANGED booking
    /\ UNCHANGED <<apiVars, statusVars, laterVars>>

\* A variant that stores what it extracted in the row's tee_time, as the bulk
\* fix does with its UPDATE after the call.
ExtractNote_WritingBack ==
    /\ op' = "from_note"
    /\ arg' = booking.note
    /\ result' = extract_tee_time_from_note(booking.note)
    /\ prev' = PyNone
    /\ booking' = [booking EXCEPT !.tee_time = extract_tee_time_from_note(booking.note)]
    /\ UNCHANGED <<apiVars, statusVars, laterVars>>

\* extract_tee_time_from_note(booking['note']), as the bulk fix calls it.
ExtractNote ==
    /\ op' = "from_note"
    /\ arg' = booking.note
    /\ result' = extract_tee_time_from_note(booking.note)
    /\ prev' = PyNone
    /\ UNCHANGED booking
    /\ UNCHANGED <<apiVars, statusVars, laterVars>>

\* extract_tee_time_from_selected_tee_times(booking.get('selected_tee_times')).
ExtractSelected ==
    /\ op' = "from_selected"
    /\ arg' = booking.selected_tee_times
    /\ result' = extract_tee_time_from_selected_tee_times(booking.selected_tee_times)
    /\ prev' = PyNone
    /\ UNCHANGED booking
    /\ UNCHANGED <<apiVars, statusVars, laterVars>>

\* extract_tee_time_from_note("Time: " + t) for the t a note extraction returned.
ReExtract ==
    /\ op \in {"from_note", "again"}
    /\ result.tag = "str"
    /\ op' = "again"
    /\ arg' = PyStr("Time: " \o result.s)
    /\ result' = extract_tee_time_from_note(PyStr("Time: " \o result.s))
    /\ prev' = result
    /\ UNCHANGED booking
    /\ UNCHANGED <<apiVars, statusVars, laterVars>>

Next == GetTeeTime \/ ExtractNote \/ ExtractSelected \/ ReExtract

Spec == Init /\ [][Next]_vars


\* ----------------------------------------------- waitlist API: state machine

allVars == <<vars, apiVars, statusVars, laterVars>>

\* A handler returns: the request, its response and the SQL it executed are
\* recorded.
Respond(endpoint, headers, id, data, code, body, sql) ==
    /\ request' = [endpoint |-> endpoint, headers |-> headers, id |-> id, data |-> data]
    /\ response' = [code |-> code, body |-> body]
    /\ executed' = sql

\* The 401 of require_api_key: the handler is not called.
Unauthorized(endpoint, headers) ==
    /\ Respond(endpoint, headers, "", PyNone, 401, Body("", <<>>), <<>>)
    /\ UNCHANGED <<waitlist, writes>>

CreateTable == <<"CREATE TABLE IF NOT EXISTS">>

\* GET /api/health
health_check ==
    /\ \E headers \in RequestHeaders :
           Respond("health", headers, "", PyNone, 200, Body("", <<>>), <<>>)
    /\ UNCHANGED <<API_SECRET_KEY, waitlist, now, writes>>
    /\ UNCHANGED <<vars, statusVars, laterVars>>

\* POST /api/waitlist/add
add_to_waitlist ==
    /\ \E headers \in RequestHeaders :
           IF require_api_key(headers, API_SECRET_KEY)
           THEN \E data \in AddPayloads :
                LET existing == SelectActive(waitlist, data)
                    waitlist_id == generate_waitlist_id(data, now)
                IN IF data = PyNone
                   THEN /\ Respond("add", headers, "", data, 500, Body("", <<>>), CreateTable)
                        /\ UNCHANGED <<waitlist, writes>>
                   ELSE IF \E field \in {"guest_email", "requested_date", "club"} :
                               ~Truthy(dict_get(data, field))
                   THEN /\ Respond("add", headers, "", data, 400, Body("", <<>>), CreateTable)
                        /\ UNCHANGED <<waitlist, writes>>
                   ELSE IF existing # {}
                   THEN /\ \E found \in existing :
                               Respond("add", headers, "", data, 409, Body(found.waitlist_id, <<>>),
                                       CreateTable \o <<"SELECT">>)
                        /\ UNCHANGED <<waitlist, writes>>
                   ELSE IF \E row \in waitlist : row.waitlist_id = waitlist_id
                   THEN /\ Respond("add", headers, "", data, 500, Body("", <<>>),
                                   CreateTable \o <<"SELECT", "INSERT">>)
                        /\ UNCHANGED <<waitlist, writes>>
                   ELSE /\ writes < MaxWrites
                        /\ waitlist' = waitlist \cup {InsertedRow(data, waitlist_id, now)}
                        /\ writes' = writes + 1
                        /\ Respond("add", headers, "", data, 201, Body(waitlist_id, <<>>),
                                   CreateTable \o <<"SELECT", "INSERT">>)
           ELSE Unauthorized("add", headers)
    /\ UNCHANGED <<API_SECRET_KEY, now>>
    /\ UNCHANGED <<vars, statusVars, laterVars>>

\* GET /api/waitlist/check
check_waitlist_status ==
    /\ \E headers \in RequestHeaders :
           IF require_api_key(headers, API_SECRET_KEY)
           THEN \E args \in Queries :
                LET email == dict_get(args, "email")
                    date == dict_get(args, "date")
                    club == dict_get(args, "club")
                    by_date == {r \in waitlist : /\ r.guest_email = email.s
                                                 /\ r.requested_date = date.s
                                                 /\ r.club = club.s}
                    by_club == {r \in waitlist : r.guest_email = email.s /\ r.club = club.s}
                IN IF ~Truthy(email) \/ ~Truthy(club)
                   THEN Respond("check", headers, "", args, 400, Body("", <<>>), CreateTable)
                   ELSE \E entries \in IF Truthy(date)
                                       THEN FetchAll(by_date, "created_at DESC")
                                       ELSE FetchAll(by_club,
                                                     "requested_date ASC, created_at DESC") :
                            Respond("check", headers, "", args, 200,
                                    Body("", [i \in 1..Len(entries) |-> EntryJson(entries[i])]),
                                    CreateTable \o <<"SELECT">>)
           ELSE Unauthorized("check", headers)
    /\ UNCHANGED <<API_SECRET_KEY, waitlist, now, writes>>
    /\ UNCHANGED <<vars, statusVars, laterVars>>

\* PATCH /api/waitlist/update/<waitlist_id>
update_waitlist_entry ==
    /\ \E headers \in RequestHeaders :
           IF require_api_key(headers, API_SECRET_KEY)
           THEN \E data \in UpdatePayloads :
                \E waitlist_id \in {r.waitlist_id : r \in waitlist} \cup {UnknownId} :
                    LET updates == {f \in {"status", "notification_sent", "notes", "priority"} :
                                        dict_has(data, f)}
                        found == {r \in waitlist : r.waitlist_id = waitlist_id}
                    IN IF data = PyNone
                       THEN /\ Respond("update", headers, waitlist_id, data, 500, Body("", <<>>), <<>>)
                            /\ UNCHANGED <<waitlist, writes>>
                       ELSE IF updates = {}
                       THEN /\ Respond("update", headers, waitlist_id, data, 400, Body("", <<>>), <<>>)
                            /\ UNCHANGED <<waitlist, writes>>
                       ELSE IF found = {}
                       THEN /\ Respond("update", headers, waitlist_id, data, 404, Body("", <<>>),
                                       <<"UPDATE">>)
                            /\ UNCHANGED <<waitlist, writes>>
                       ELSE /\ writes < MaxWrites
                            /\ waitlist' = {IF r \in found THEN UpdatedRow(r, data, now) ELSE r :
                                               r \in waitlist}
                            /\ writes' = writes + 1
                            /\ Respond("update", headers, waitlist_id, data, 200, Body(waitlist_id, <<>>),
                                       <<"UPDATE">>)
           ELSE Unauthorized("update", headers)
    /\ UNCHANGED <<API_SECRET_KEY, now>>
    /\ UNCHANGED <<vars, statusVars, laterVars>>

\* GET /api/waitlist/matches
get_waitlist_matches ==
    /\ \E headers \in RequestHeaders :
           IF require_api_key(headers, API_SECRET_KEY)
           THEN \E args \in Queries :
                LET date == dict_get(args, "date")
                    club == dict_get(args, "club")
                IN IF ~Truthy(date) \/ ~Truthy(club)
                   THEN Respond("matches", headers, "", args, 400, Body("", <<>>), CreateTable)
                   ELSE \E matches \in FetchAll(SelectMatches(waitlist, club.s, date.s),
                                                "priority DESC, created_at ASC") :
                            Respond("matches", headers, "", args, 200,
                                    Body("", [i \in 1..Len(matches) |-> MatchJson(matches[i])]),
                                    CreateTable \o <<"SELECT">>)
           ELSE Unauthorized("matches", headers)
    /\ UNCHANGED <<API_SECRET_KEY, waitlist, now, writes>>
    /\ UNCHANGED <<vars, statusVars, laterVars>>

\* get_waitlist_matches(club_filter, available_date) of src/dashboard.py, which
\* the dashboard calls on its own connection: SELECT * with the same WHERE
\* and ORDER BY, the rows returned whole.
dashboard_get_waitlist_matches ==
    /\ \E args \in {q \in Queries : dict_has(q, "date") /\ dict_has(q, "club")} :
       \E matches \in FetchAll(SelectMatches(waitlist, dict_item(args, "club").s,
                                             dict_item(args, "date").s),
                               "priority DESC, created_at ASC") :
           Respond("dashboard", Headers(PyNone, PyNone), "", args, 200,
                   Body("", matches), <<"SELECT">>)
    /\ UNCHANGED <<API_SECRET_KEY, waitlist, now, writes>>
    /\ UNCHANGED <<vars, statusVars, laterVars>>

\* DELETE /api/waitlist/remove/<waitlist_id>
remove_from_waitlist ==
    /\ \E headers \in RequestHeaders :
           IF require_api_key(headers, API_SECRET_KEY)
           THEN \E waitlist_id \in {r.waitlist_id : r \in waitlist} \cup {UnknownId} :
                    LET found == {r \in waitlist : r.waitlist_id = waitlist_id}
                    IN IF found = {}
                       THEN /\ Respond("remove", headers, waitlist_id, PyNone, 404, Body("", <<>>),
                                       <<"DELETE">>)
                            /\ UNCHANGED <<waitlist, writes>>
                       ELSE /\ writes < MaxWrites
                            /\ waitlist' = waitlist \ found
                            /\ writes' = writes + 1
                            /\ Respond("remove", headers, waitlist_id, PyNone, 200, Body(waitlist_id, <<>>),
                                       <<"DELETE">>)
           ELSE Unauthorized("remove", headers)
    /\ UNCHANGED <<API_SECRET_KEY, now>>
    /\ UNCHANGED <<vars, statusVars, laterVars>>

\* A second of the clock passes.
Tick ==
    /\ now < MaxClock
    /\ now' = now + 1
    /\ UNCHANGED <<API_SECRET_KEY, waitlist, writes, request, response, executed>>
    /\ UNCHANGED <<vars, statusVars, laterVars>>

ApiInit ==
    /\ API_SECRET_KEY \in ApiKeys
    /\ waitlist \in SeedTables
    /\ now = 0
    /\ writes = 0
    /\ request = NoRequest
    /\ response = NoResponse
    /\ executed = <<>>
    /\ IdleExcept({"api"})

ApiNext ==
    \/ health_check
    \/ add_to_waitlist
    \/ check_waitlist_status
    \/ update_waitlist_entry
    \/ get_waitlist_matches
    \/ dashboard_get_waitlist_matches
    \/ remove_from_waitlist
    \/ Tick

ApiSpec == ApiInit /\ [][ApiNext]_allVars


\* ------------------------------------------ booking status: state machine

\* The option the dropdown shows after the status of the booking has
\* changed: the one it showed, or the default of the new status where
\* Streamlit makes a new widget of the changed index.
Rerun(new_status) ==
    status_select' \in {status_select, all_statuses[current_index(new_status)]}

\* A variant that leaves a rejected or cancelled booking as it is.
update_booking_status_Guarded(new_status, by) ==
    IF current_status \in {"Rejected", "Cancelled"}
    THEN UNCHANGED <<current_status, updated_by, auto_include_status, status_select>>
    ELSE /\ current_status' = new_status
         /\ updated_by' = by
         /\ auto_include_status' = auto_include_status \cup {new_status}
         /\ Rerun(new_status)

\* update_booking_status(booking_id, new_status, updated_by), and the rerun
\* that follows it.
update_booking_status(new_status, by) ==
    /\ current_status' = new_status
    /\ updated_by' = by
    /\ auto_include_status' = auto_include_status \cup {new_status}
    /\ Rerun(new_status)

\* Staff pick an option of "Change Status To:".
SelectStatus(option) ==
    /\ \E i \in 1..Len(all_statuses) : all_statuses[i] = option
    /\ status_select' = option
    /\ UNCHANGED <<current_status, updated_by, auto_include_status>>
    /\ UNCHANGED <<vars, apiVars, laterVars>>

\* The "Update Status" button, shown when the option differs from the status.
UpdateStatus ==
    /\ status_select # current_status
    /\ \E username \in Usernames : update_booking_status(status_select, username)
    /\ UNCHANGED <<vars, apiVars, laterVars>>

\* The quick buttons over the card, shown unless the booking is rejected or
\* cancelled: "-> Requested", "-> Confirmed", "-> Booked" and "Reject".
QuickButton ==
    /\ current_status \notin {"Rejected", "Cancelled"}
    /\ \/ /\ current_status \in {"Inquiry", "Pending"}
          /\ \E username \in Usernames : update_booking_status("Requested", username)
       \/ /\ current_status = "Requested"
          /\ \E username \in Usernames : update_booking_status("Confirmed", username)
       \/ /\ current_status = "Confirmed"
          /\ \E username \in Usernames : update_booking_status("Booked", username)
       \/ /\ current_status \notin {"Rejected", "Cancelled", "Booked"}
          /\ \E username \in Usernames : update_booking_status("Rejected", username)
    /\ UNCHANGED <<vars, apiVars, laterVars>>

StatusInit ==
    /\ current_status \in BookingStatuses
    /\ updated_by = ""
    /\ status_select = all_statuses[current_index(current_status)]
    /\ auto_include_status = {}
    /\ IdleExcept({"status"})

StatusNext ==
    \/ \E option \in BookingStatuses : SelectStatus(option)
    \/ UpdateStatus
    \/ QuickButton

StatusSpec == StatusInit /\ [][StatusNext]_allVars


\* ---------------------------------------------------- vocabulary of the claims

\* Every character of s at positions from..to is in set.
AllIn(s, from, to, set) == \A k \in from..to : ChAt(s, k) \in set

\* s[j..e] is a clock time with a meridiem: one or two digits, a colon, two
\* digits, any run of whitespace, A or P and M in either case.
ClockTimeBetween(s, j, e) ==
    \E h \in 1..2 : \E g \in 0..Len(s) :
        /\ e = j + h + g + 4
        /\ e <= Len(s)
        /\ AllIn(s, j, j + h - 1, Digit)
        /\ ChAt(s, j + h) = ":"
        /\ AllIn(s, j + h + 1, j + h + 2, Digit)
        /\ AllIn(s, j + h + 3, j + h + 2 + g, Whitespace)
        /\ ChAt(s, e - 1) \in {"A", "a", "P", "p"}
        /\ ChAt(s, e) \in {"M", "m"}

IsClockAt(s, j) == \E e \in j..Len(s) : ClockTimeBetween(s, j, e)

\* The clock time that starts at position j.
ClockTextAt(s, j) == SubSeq(s, j, CHOOSE e \in j..Len(s) : ClockTimeBetween(s, j, e))

\* "time:" at position i of s, in that casing or (anyCase) in any casing.
PrefixAt(s, i, anyCase) ==
    /\ i + 4 <= Len(s)
    /\ IF anyCase
       THEN str_lower(SubSeq(s, i, i + 4)) = "time:"
       ELSE SubSeq(s, i, i + 4) = "time:"

\* Position i starts "time:" in any casing, whitespace, and a clock time
\* at position j.
NotePrefixedAt(s, i, j) ==
    /\ PrefixAt(s, i, TRUE)
    /\ j \in (i + 5)..Len(s)
    /\ AllIn(s, i + 5, j - 1, Whitespace)
    /\ IsClockAt(s, j)

HasNotePrefix(s) == \E i \in 1..Len(s) : \E j \in 1..Len(s) : NotePrefixedAt(s, i, j)

\* Position i starts "time:" immediately followed by a clock time.
MapPrefixedAt(s, i, anyCase) == PrefixAt(s, i, anyCase) /\ IsClockAt(s, i + 5)

\* The clock time after the leftmost such position.
LeftmostMapTime(s, anyCase) ==
    LET i == CHOOSE k \in 1..Len(s) :
                 /\ MapPrefixedAt(s, k, anyCase)
                 /\ \A l \in 1..(k - 1) : ~MapPrefixedAt(s, l, anyCase)
    IN ClockTextAt(s, i + 5)

\* s contains the text t, letter casing ignored.
ContainsAnyCase(s, t) ==
    \E i \in 1..Len(s) :
        /\ i + Len(t) - 1 <= Len(s)
        /\ str_lower(SubSeq(s, i, i + Len(t) - 1)) = str_lower(t)

\* The texts of the model that json.loads refuses.
NonJsonTexts == MalformedTexts \cup MapTexts

\* The texts of the model that are not JSON, the nested ones included.
NotJsonTexts ==
    NonJsonTexts
        \cup {Nested("[", RecursionLimit), Nested("[", RecursionLimit + 1),
              Nested("{\"a\": ", RecursionLimit + 1),
              Nested("[", RecursionLimit + 1) \o "time:9:00 AM",
              "time:9:00 AM " \o Nested("[", RecursionLimit + 1)}

\* The value of a one- or two-digit number.
NumberOf(digits) ==
    IF Len(digits) = 1
    THEN IndexOf(digits, "0123456789") - 1
    ELSE 10 * (IndexOf(Ch(digits, 1), "0123456789") - 1)
             + IndexOf(Ch(digits, 2), "0123456789") - 1

\* t is digits, colon, two digits, whitespace, upper-case AM or PM; with
\* inRange the hour is 1..12 and the minute 00..59.
IsNormalizedTime(t, inRange) ==
    \E h \in 1..2 :
        /\ Len(t) >= h + 5
        /\ AllIn(t, 1, h, Digit)
        /\ ChAt(t, h + 1) = ":"
        /\ AllIn(t, h + 2, h + 3, Digit)
        /\ AllIn(t, h + 4, Len(t) - 2, Whitespace)
        /\ SubSeq(t, Len(t) - 1, Len(t)) \in {"AM", "PM"}
        /\ inRange => /\ NumberOf(SubSeq(t, 1, h)) \in 1..12
                      /\ NumberOf(SubSeq(t, h + 2, h + 3)) \in 0..59

\* ----------------------------------------------------------------- the claims

\* C1: a booking whose tee_time is a non-empty string gets exactly that
\* string from get_tee_time_from_booking, whatever selected_tee_times and
\* note hold.
C1_DirectFieldWins ==
    (op = "get_tee_time" /\ booking.tee_time.tag = "str" /\ booking.tee_time.s # "")
        => result = booking.tee_time

\* tee_time "14:00" with note "Time: 9:00 AM" has returned "14:00".
C1_Witness ==
    /\ op = "get_tee_time"
    /\ booking.tee_time = PyStr("14:00")
    /\ booking.note = PyStr("Time: 9:00 AM")
    /\ result = PyStr("14:00")

\* C2 as written: with tee_time empty or absent the result is what
\* selected_tee_times yields when it yields anything but None, else what
\* the note yields, else "TBD".
C2_AnyValueWins ==
    (op = "get_tee_time" /\ booking.tee_time \in {PyNone, PyStr("")})
        => LET structured == extract_tee_time_from_selected_tee_times(
                                 booking.selected_tee_times)
               free_text == extract_tee_time_from_note(booking.note)
           IN result = IF structured # PyNone THEN structured
                       ELSE IF free_text # PyNone THEN free_text
                       ELSE PyStr("TBD")

\* C2 amended: the structured source decides only when what it yields is
\* true in Python's sense (not None, not "", not 0, not False, not empty);
\* else the note decides when it yields a value, else "TBD". An exception
\* that escapes the structured extraction reaches the caller.
C2_TruthyValueWins ==
    (op = "get_tee_time" /\ booking.tee_time \in {PyNone, PyStr("")})
        => LET structured == extract_tee_time_from_selected_tee_times(
                                 booking.selected_tee_times)
               free_text == extract_tee_time_from_note(booking.note)
           IN result = IF structured.tag = "exc" \/ Truthy(structured)
                       THEN structured
                       ELSE IF free_text # PyNone THEN free_text
                       ELSE PyStr("TBD")

\* selected_tee_times {"time": ""} yields "" and the note has decided.
C2_Witness ==
    /\ op = "get_tee_time"
    /\ booking.tee_time = PyNone
    /\ booking.selected_tee_times = PyDict(<< <<"time", PyStr("")>> >>)
    /\ booking.note = PyStr("Time: 9:00 AM")
    /\ result = PyStr("9:00 AM")

\* C3 as written: a note that contains "Time: 9:05 AM" in any casing
\* yields "9:05 AM", whatever stands before or after it.
C3_AnyContext ==
    (op = "from_note" /\ arg.tag = "str" /\ ContainsAnyCase(arg.s, "Time: 9:05 AM"))
        => result = PyStr("9:05 AM")

\* C3 amended: it yields "9:05 AM" when no "time:" (any casing) with a
\* clock time after it starts earlier in the note.
C3_LeftmostWins ==
    (op = "from_note" /\ arg.tag = "str")
        => \A i \in 1..Len(arg.s) :
               (/\ i + 12 <= Len(arg.s)
                /\ str_lower(SubSeq(arg.s, i, i + 12)) = "time: 9:05 am"
                /\ \A k \in 1..(i - 1) : \A j \in 1..Len(arg.s) :
                       ~NotePrefixedAt(arg.s, k, j))
                   => result = PyStr("9:05 AM")

\* "tImE: 9:05 aM" inside a sentence has yielded "9:05 AM".
C3_Witness ==
    /\ op = "from_note"
    /\ arg = PyStr("Customer requested tImE: 9:05 aM for 4 players")
    /\ result = PyStr("9:05 AM")

\* C4: a note without any "Time:" prefix (as the patterns recognize it, in
\* any casing) followed by a clock time yields None, a bare clock time
\* included.
C4_NoPrefixNoTime ==
    (op = "from_note" /\ arg.tag = "str" /\ ~HasNotePrefix(arg.s))
        => result = PyNone

\* The bare clock time "9:05 AM" has yielded None.
C4_Witness ==
    /\ op = "from_note"
    /\ arg = PyStr("9:05 AM")
    /\ IsClockAt(arg.s, 1)
    /\ result = PyNone

\* C5: None, NaN and "" yield None from extract_tee_time_from_note, and no
\* exception.
C5_AbsentNote ==
    (op = "from_note" /\ arg \in {PyNone, PyNaN, PyStr("")}) => result = PyNone

\* A NaN note has yielded None.
C5_Witness == op = "from_note" /\ arg = PyNaN /\ result = PyNone

\* C6: a mapping with a "time" key, or a JSON text of such an object, yields
\* the value under "time" as it is stored, untrimmed and in its own casing.
C6_TimeMemberVerbatim ==
    op = "from_selected"
        => /\ (arg.tag = "dict" /\ dict_has(arg, "time"))
                  => result = dict_item(arg, "time")
           /\ \A b \in {"", "\"course\": \"North\", ", "\"time\": \"1:11 AM\", "} :
              \A v \in JsonTimes :
              \A a \in {"", ", \"course\": \"North\"", ", \"alt\": \"time:7:15 PM\""} :
                  arg = PyStr(JsonObjectText(b, v, a)) => result = PyStr(v)
           /\ arg = PyStr("{\"time\": \"6:30 AM\", \"course\": \"North\"}")
                  => result = PyStr("6:30 AM")

\* The JSON text {"time": " 3:45 PM "} has yielded " 3:45 PM ".
C6_Witness ==
    /\ op = "from_selected"
    /\ arg = PyStr("{\"time\": \" 3:45 PM \"}")
    /\ result = PyStr(" 3:45 PM ")

\* C7: a text that is not JSON raises nothing: the result is what the
\* "time:" pattern and then the bare-time match give, None for
\* "{not valid json" and "9:00 AM" for "{time:9:00 AM}".
C7_NotJsonNeverRaises ==
    (op = "from_selected" /\ arg.tag = "str" /\ arg.s \in NotJsonTexts)
        => /\ result.tag # "exc"
           /\ result = MatchSelectedText(arg.s)
           /\ arg.s = "{not valid json" => result = PyNone
           /\ arg.s = "{time:9:00 AM}" => result = PyStr("9:00 AM")

\* C7, the part that holds: a text that json.loads refuses with a decode
\* error raises nothing and the two patterns decide.
C7_DecodeErrorFallsThrough ==
    (op = "from_selected" /\ arg.tag = "str" /\ arg.s \in NonJsonTexts)
        => /\ result.tag # "exc"
           /\ result = MatchSelectedText(arg.s)
           /\ arg.s = "{not valid json" => result = PyNone
           /\ arg.s = "{time:9:00 AM}" => result = PyStr("9:00 AM")

\* "{time:9:00 AM}" has yielded "9:00 AM".
C7_Witness ==
    /\ op = "from_selected"
    /\ arg = PyStr("{time:9:00 AM}")
    /\ json_loads(arg.s) = PyExc("JSONDecodeError")
    /\ result = PyStr("9:00 AM")

\* C8: extract_tee_time_from_note("Time: " + t) is t again for every t the
\* extractor returned.
C8_Idempotent == op = "again" => result = prev

\* "12:20 PM", extracted from a sentence, has been extracted again.
C8_Witness ==
    /\ op = "again"
    /\ booking.note = PyStr("Customer requested Time: 12:20 pm for 4 players")
    /\ prev = PyStr("12:20 PM")
    /\ result = PyStr("12:20 PM")

\* C9 as written: in a text that is not JSON, "time:" in any casing
\* immediately followed by a clock time yields that clock time.
C9_PrefixAnyCase ==
    (/\ op = "from_selected"
     /\ arg.tag = "str"
     /\ arg.s \in NonJsonTexts
     /\ \E i \in 1..Len(arg.s) : MapPrefixedAt(arg.s, i, TRUE))
        => result = PyStr(LeftmostMapTime(arg.s, TRUE))

\* C9 amended: only the lower-case "time:" is a prefix (the meridiem may be
\* in either case): the leftmost one followed by a clock time yields it,
\* and without one the text yields itself when it starts with a clock time
\* and None otherwise, "Time:" and "TIME:" notwithstanding. A text on which
\* json.loads raises RecursionError raises before any prefix is looked for.
C9_PrefixLowerCase ==
    (op = "from_selected" /\ arg.tag = "str" /\ arg.s \in NotJsonTexts)
        => result = IF json_loads(arg.s) = PyExc("RecursionError")
                    THEN PyExc("RecursionError")
                    ELSE IF \E i \in 1..Len(arg.s) : MapPrefixedAt(arg.s, i, FALSE)
                    THEN PyStr(LeftmostMapTime(arg.s, FALSE))
                    ELSE IF IsClockAt(arg.s, 1) THEN arg
                    ELSE PyNone

\* "TIME:9:00 AM" was passed over and the later "time:1:11 PM" has matched.
C9_Witness ==
    /\ op = "from_selected"
    /\ arg = PyStr("TIME:9:00 AM, time:1:11 PM")
    /\ result = PyStr("1:11 PM")

\* C10 as written: what extract_tee_time_from_note returns is H:MM or HH:MM
\* and an upper-case AM or PM, the hour in 1..12 and the minute in 00..59.
C10_NormalizedInRange ==
    (op \in {"from_note", "again"} /\ result # PyNone)
        => result.tag = "str" /\ IsNormalizedTime(result.s, TRUE)

\* C10 amended: it is one or two digits, a colon, two digits, any run of
\* whitespace and an upper-case AM or PM; the digits are not range-checked.
C10_NormalizedShape ==
    (op \in {"from_note", "again"} /\ result # PyNone)
        => result.tag = "str" /\ IsNormalizedTime(result.s, FALSE)

\* "Time: 13:99 PM" has yielded "13:99 PM".
C10_Witness ==
    /\ op = "from_note"
    /\ arg = PyStr("Time: 13:99 PM")
    /\ result = PyStr("13:99 PM")

\* The position of the clock time after the leftmost "time:" (any casing)
\* that whitespace and a clock time follow.
LeftmostNoteTimeAt(s) ==
    LET i == CHOOSE k \in 1..Len(s) :
                 /\ \E j \in 1..Len(s) : NotePrefixedAt(s, k, j)
                 /\ \A l \in 1..(k - 1) : \A j \in 1..Len(s) : ~NotePrefixedAt(s, l, j)
    IN CHOOSE j \in 1..Len(s) : NotePrefixedAt(s, i, j)

\* The characters of a clock time in front of its meridiem letters.
DigitsOf(t) == SubSeq(t, 1, Len(t) - 2)

\* C11: extract_tee_time_from_note does not validate ranges: what it returns
\* is the matched clock time with its hour and minute digits exactly as the
\* text has them, so "07:05 AM" keeps its zero and "Time: 13:99 PM" yields
\* "13:99 PM", not None.
C11_DigitsPassThrough ==
    (op = "from_note" /\ arg.tag = "str" /\ HasNotePrefix(arg.s))
        => LET token == ClockTextAt(arg.s, LeftmostNoteTimeAt(arg.s))
           IN /\ result = PyStr(str_upper(token))
              /\ DigitsOf(result.s) = DigitsOf(token)
              /\ arg.s = "Time: 13:99 PM" => result = PyStr("13:99 PM")
              /\ arg.s = "Tee Time: 07:05 AM please confirm"
                     => result = PyStr("07:05 AM")

\* "Tee Time: 07:05 AM please confirm" has yielded "07:05 AM".
C11_Witness ==
    /\ op = "from_note"
    /\ arg = PyStr("Tee Time: 07:05 AM please confirm")
    /\ result = PyStr("07:05 AM")

C13_NeverRaises ==
    /\ op \in {"from_selected", "from_note", "again"} => result.tag # "exc"
    /\ op = "get_tee_time" => result.tag # "exc" /\ result # PyNone

\* C13, the part that holds: only a text that nests objects or arrays
\* deeper than the recursion limit makes a call raise, and what it raises
\* is RecursionError.
C13_RaisesOnlyWhenDeep ==
    result.tag = "exc"
        => /\ op \in {"from_selected", "get_tee_time"}
           /\ result = PyExc("RecursionError")
           /\ booking.selected_tee_times.tag = "str"
           /\ booking.selected_tee_times.s \in DeepTexts
           /\ json_loads(booking.selected_tee_times.s) = PyExc("RecursionError")

\* What the interpretations of extract_tee_time_from_selected_tee_times give
\* when tried in the order mapping, JSON, "time:" pattern, bare time.
FirstInterpretation(v) ==
    IF v.tag = "dict" THEN dict_get(v, "time")
    ELSE IF v.tag # "str" THEN PyNone
    ELSE IF json_loads(v.s).tag = "dict" /\ dict_has(json_loads(v.s), "time")
    THEN dict_item(json_loads(v.s), "time")
    ELSE IF \E i \in 1..Len(v.s) : MapPrefixedAt(v.s, i, FALSE)
    THEN PyStr(LeftmostMapTime(v.s, FALSE))
    ELSE IF IsClockAt(v.s, 1) THEN v
    ELSE PyNone

\* C18: the interpretations are tried in the order mapping, JSON, "time:"
\* pattern, bare time and the first that applies decides: a JSON object with
\* a "time" member yields that member although the text embeds another
\* "time:" token, a text that starts with a clock time and embeds a "time:"
\* token yields the embedded token, and a value to which none applies
\* yields None.
C18_FixedOrder ==
    op = "from_selected"
        => /\ result = FirstInterpretation(arg)
           /\ arg = PyStr("{\"time\": \"6:30 AM\", \"alt\": \"time:7:15 PM\"}")
                  => result = PyStr("6:30 AM")
           /\ arg = PyStr("9:05 AM, time:10:10 pm") => result = PyStr("10:10 pm")

\* C18, the part that holds: the order decides the result of every call
\* that returns; a call on which json.loads raises RecursionError raises.
C18_FixedOrderUnlessRaised ==
    op = "from_selected"
        => result = IF arg.tag = "str" /\ json_loads(arg.s) = PyExc("RecursionError")
                    THEN PyExc("RecursionError")
                    ELSE FirstInterpretation(arg)

\* "9:05 AM, time:10:10 pm" starts with a clock time and has yielded the
\* embedded "10:10 pm".
C18_Witness ==
    /\ op = "from_selected"
    /\ arg = PyStr("9:05 AM, time:10:10 pm")
    /\ IsClockAt(arg.s, 1)
    /\ result = PyStr("10:10 pm")

\* Time:\s*(\d{1,2}:\d{2}\s*[AaPp][Mm]), the first pattern on its own.
TimePrefixPattern == Pattern(LitSeq("Time:") \o <<Star(Whitespace)>>, ClockTime)

\* An extractor that searches only for that pattern, letter casing ignored,
\* and strips and upper-cases what it captured.
FirstPatternOnly(note_content) ==
    IF ~Truthy(note_content) \/ pd_isna(note_content)
    THEN PyNone
    ELSE LET s == py_str(note_content)
             m == re_search(TimePrefixPattern, s, TRUE)
         IN IF m.ok
            THEN PyStr(str_upper(str_strip(group1(TimePrefixPattern, s, m))))
            ELSE PyNone

\* C19: the second and the third pattern of extract_tee_time_from_note
\* decide nothing: every note yields what the first pattern alone yields,
\* and a note either of them matches is matched by the first.
C19_LaterPatternsRedundant ==
    op \in {"from_note", "again"}
        => /\ result = FirstPatternOnly(arg)
           /\ arg.tag = "str"
                  => \A k \in 2..Len(patterns) :
                         re_search(patterns[k], arg.s, NoteIgnoreCase).ok
                             => re_search(TimePrefixPattern, arg.s, TRUE).ok

\* "Tee  Time:" with a tab before "12:20 pm" is matched by the third
\* pattern and has yielded the "12:20 PM" of the first.
C19_Witness ==
    /\ op = "from_note"
    /\ arg = PyStr("Tee  Time:\t12:20 pm")
    /\ re_search(patterns[3], arg.s, NoteIgnoreCase).ok
    /\ result = PyStr("12:20 PM")


\* -------------------------------------------------------- waitlist API claims

\* The step is a request to the endpoint: it has recorded the request, and
\* no other step leaves the endpoint as the last one while anything changes.
Served(endpoint) ==
    /\ request'.endpoint = endpoint
    /\ <<request, response, executed, waitlist>>' # <<request, response, executed, waitlist>>

WaitlistEndpoints == {"add", "check", "update", "matches", "remove"}

\* The request carries the key: as X-API-Key or as "Bearer <key>".
PresentsKey(headers, key) ==
    \/ headers.x_api_key = PyStr(key)
    \/ headers.authorization = PyStr("Bearer " \o key)

\* C14: every request to an /api/waitlist/ endpoint that does not carry the
\* configured key, as X-API-Key or as Bearer token, is answered 401 and
\* executes no SQL, whatever the configured key is; /api/health is served
\* without a key.
C14_KeyRequired ==
    /\ request.endpoint \in WaitlistEndpoints /\ ~PresentsKey(request.headers, API_SECRET_KEY)
           => response.code = 401 /\ executed = <<>>
    /\ request.endpoint = "health" => response.code = 200

\* C14, the part that holds: a request whose key, as the decorator reads it,
\* differs from the configured key is answered 401 and executes no SQL, and
\* /api/health is served whatever the headers are.
C14_ReadKeyRequired ==
    /\ request.endpoint \in WaitlistEndpoints
           /\ ~require_api_key(request.headers, API_SECRET_KEY)
           => response.code = 401 /\ executed = <<>>
    /\ request.endpoint = "health" => response.code = 200

\* A request without any key has added an entry: the configured key is empty.
C14_Witness ==
    /\ request.endpoint = "add"
    /\ request.headers = Headers(PyNone, PyNone)
    /\ response.code = 201
    /\ \E r \in waitlist : r.waitlist_id = response.body.waitlist_id

\* The body of a POST add names guest_email, requested_date and club.
NamesEntry(data) ==
    /\ data.tag = "dict"
    /\ \A field \in {"guest_email", "requested_date", "club"} :
           Truthy(dict_get(data, field))

\* The entry for the (guest_email, requested_date, club) of data.
SameKey(r, data) ==
    /\ r.guest_email = dict_item(data, "guest_email").s
    /\ r.requested_date = dict_item(data, "requested_date").s
    /\ r.club = dict_item(data, "club").s

\* The response 409 names an active entry of the key and nothing is inserted.
Conflict409 ==
    /\ response'.code = 409
    /\ \E r \in waitlist :
           /\ SameKey(r, request'.data)
           /\ r.status \in {"Waiting", "Notified"}
           /\ response'.body.waitlist_id = r.waitlist_id
    /\ waitlist' = waitlist

\* The response 201 names the one entry that was inserted.
Created201 ==
    /\ response'.code = 201
    /\ \E r \in waitlist' \ waitlist :
           /\ waitlist' = waitlist \cup {r}
           /\ SameKey(r, request'.data)
           /\ r.status = "Waiting"
           /\ r.source = "email_bot"
           /\ r.waitlist_id = response'.body.waitlist_id

\* C15: a POST add for a key with an entry in 'Waiting' or 'Notified' gets
\* 409 with that entry's waitlist_id and inserts nothing; for a key without
\* one (entries in other statuses included) it inserts exactly one entry,
\* 'Waiting' and of source 'email_bot', and gets 201.
C15_AddOutcome ==
    [][Served("add") /\ response'.code # 401 /\ NamesEntry(request'.data)
           => IF \E r \in waitlist : SameKey(r, request'.data)
                                     /\ r.status \in {"Waiting", "Notified"}
              THEN Conflict409
              ELSE Created201]_allVars

\* C15, the part that holds: the same, but a key without an active entry gets
\* 500 and nothing is inserted when the waitlist_id made of the second and
\* the guest_email is already in the table.
C15_AddOutcomeUnlessSameId ==
    [][Served("add") /\ response'.code # 401 /\ NamesEntry(request'.data)
           => IF \E r \in waitlist : SameKey(r, request'.data)
                                     /\ r.status \in {"Waiting", "Notified"}
              THEN Conflict409
              ELSE IF \E r \in waitlist :
                          r.waitlist_id = generate_waitlist_id(request'.data, now)
              THEN response'.code = 500 /\ waitlist' = waitlist
              ELSE Created201]_allVars

\* A POST add for a key without an active entry was answered 500: the guest
\* has an entry for another date that was made in the same second.
C15_Witness ==
    /\ request.endpoint = "add"
    /\ NamesEntry(request.data)
    /\ response.code = 500
    /\ ~\E r \in waitlist : SameKey(r, request.data) /\ r.status \in {"Waiting", "Notified"}
    /\ \E r \in waitlist : r.guest_email = dict_item(request.data, "guest_email").s

\* The entry of the table that has the waitlist_id.
EntryOf(rows, waitlist_id) == CHOOSE r \in rows : r.waitlist_id = waitlist_id

\* C16: a successful matches request, of the API or of the dashboard,
\* returns exactly the entries of the club and the date whose status is
\* 'Waiting', each once, by priority descending and then creation time
\* ascending, with their number as matches_found, and changes no entry.
C16_WaitingMatchesInOrder ==
    [][(Served("matches") \/ Served("dashboard")) /\ response'.code = 200
           => LET rows == response'.body.rows
                  club == dict_item(request'.data, "club").s
                  date == dict_item(request'.data, "date").s
                  entry == [i \in 1..Len(rows) |-> EntryOf(waitlist, rows[i].waitlist_id)]
              IN /\ waitlist' = waitlist
                 /\ {rows[i].waitlist_id : i \in 1..Len(rows)}
                        = {r.waitlist_id : r \in {e \in waitlist : /\ e.club = club
                                                                    /\ e.requested_date = date
                                                                    /\ e.status = "Waiting"}}
                 /\ \A i \in 1..Len(rows) :
                        entry[i].status
                            \notin {"Notified", "Converted", "Expired", "Cancelled"}
                 /\ \A i \in 1..Len(rows) : \A j \in (i + 1)..Len(rows) :
                        /\ rows[i].waitlist_id # rows[j].waitlist_id
                        /\ \/ entry[i].priority > entry[j].priority
                           \/ /\ entry[i].priority = entry[j].priority
                              /\ entry[i].created_at <= entry[j].created_at
                 /\ response'.body.count = Len(rows)]_allVars

\* The matches for island on 2024-03-15 came back as bob (priority 9) before
\* ann (priority 5), while an entry of another status is in the table.
C16_Witness ==
    /\ request.endpoint = "matches"
    /\ response.code = 200
    /\ response.body.count = 2
    /\ response.body.rows[1].priority = 9
    /\ response.body.rows[2].priority = 5
    /\ \E r \in waitlist : /\ r.status = "Notified"
                           /\ r.club = "island"
                           /\ r.requested_date = "2024-03-15"
                           /\ r.priority = 7

\* The value a column takes from a value of the body.
ColumnValue(v) ==
    CASE v.tag = "str" -> v.s
      [] v.tag = "bool" -> (v.s = "true")
      [] v.tag = "num" -> sql_integer(v)

UpdateFields == {"status", "notification_sent", "notes", "priority"}

WorkflowStatuses == BookingStatuses \ {"Pending"}

\* Whatever the status is, the "Update Status" button sets the option the
\* dropdown shows when it differs from the status.
UpdateUnguarded ==
    status_select # current_status
        => ENABLED (UpdateStatus /\ current_status' = status_select)

PRE_ARRIVAL_DAYS == 3
POST_PLAY_DAYS == 2

EmailTypes == {"pre_arrival", "post_play"}

\* column_map of mark_email_sent.
column_map(email_type) ==
    IF email_type = "pre_arrival"
    THEN "pre_arrival_email_sent_at"
    ELSE "post_play_email_sent_at"

\* clean_email_address(email): None is "".
clean_email_address(email) ==
    IF email = "" THEN ""
    ELSE LET stripped == str_strip(email)
         IN IF Len(stripped) >= 7 /\ str_lower(SubSeq(stripped, 1, 7)) = "mailto:"
            THEN str_strip(SubSeq(stripped, 8, Len(stripped)))
            ELSE stripped

\* A row of bookings: play_date is a day of the calendar, a ..._sent_at column
\* is <<>> when NULL and <<day>> when set.
EmailBooking(booking_id, guest_email, play_date, status, club) ==
    [booking_id |-> booking_id,
     guest_email |-> guest_email,
     play_date |-> play_date,
     status |-> status,
     club |-> club,
     pre_arrival_email_sent_at |-> <<>>,
     post_play_email_sent_at |-> <<>>]

\* The bookings tables of the email runs: two bookings, the first of any tee
\* date, status and club, the second booked at the demo club.
EmailBookingTables ==
    {{EmailBooking("BK-1", "ann@example.com", play_date, status, club),
      EmailBooking("BK-2", guest_email, second_date, "Booked", "demo")} :
        play_date \in {0 - POST_PLAY_DAYS, 1, PRE_ARRIVAL_DAYS},
        status \in {"Confirmed", "Cancelled"},
        club \in {"demo", "", "island"},
        guest_email \in {"mailto:bob@example.com", ""},
        second_date \in {PRE_ARRIVAL_DAYS}}

\* The rows both selections return for an email type: the status and club
\* filters of the query, and the rows without the email when the tracking
\* column exists.
BookingsForEmail(email_type, club_filter) ==
    {b \in email_bookings :
        /\ b.status \in {"Confirmed", "Booked", "Requested", "Inquiry"}
        /\ club_filter # "" => b.club \in {club_filter, ""}
        /\ email_type \in has_tracking => b[column_map(email_type)] = <<>>}

\* get_upcoming_bookings_for_email(club_filter=club_filter)
get_upcoming_bookings_for_email(club_filter) ==
    BookingsForEmail("pre_arrival", club_filter)

\* get_recent_bookings_for_email(club_filter=club_filter)
get_recent_bookings_for_email(club_filter) ==
    BookingsForEmail("post_play", club_filter)

\* send_pre_arrival_email(booking) and send_post_play_email(booking) when
\* SendGrid answers status_code and the database of mark_email_sent is up
\* (db_ok) or down: whether the call returned True, whether SendGrid
\* accepted the email, and whether the booking was marked.
send_email(b, email_type, status_code, db_ok) ==
    IF b.booking_id = "" \/ b.guest_email = "" \/ clean_email_address(b.guest_email) = ""
    THEN [success |-> FALSE, accepted |-> FALSE, marked |-> FALSE]
    ELSE IF status_code \in {200, 202}
    THEN [success |-> db_ok,
          accepted |-> TRUE,
          marked |-> db_ok /\ email_type \in has_tracking]
    ELSE [success |-> FALSE, accepted |-> FALSE, marked |-> FALSE]

\* The email SendGrid accepted for a booking: nth counts the emails of the
\* type the booking has had.
Email(b, email_type) ==
    [to |-> clean_email_address(b.guest_email),
     booking_id |-> b.booking_id,
     email_type |-> email_type,
     day |-> today,
     nth |-> Cardinality({e \in outbox : /\ e.booking_id = b.booking_id
                                         /\ e.email_type = email_type}) + 1]

\* mark_email_sent(booking_id, email_type): SET <column> = CURRENT_TIMESTAMP.
mark_email_sent(b, email_type) ==
    [b EXCEPT ![column_map(email_type)] = <<today>>]

\* process_pre_arrival_emails / process_post_play_emails(club_filter='demo',
\* dry_run), as the buttons of the campaign page call them: the selection
\* raises when the database is down; a dry run only lists; otherwise every
\* selected booking is sent its email.
ProcessEmails(email_type) ==
    /\ Cardinality(outbox) < MaxEmails
    /\ \E dry_run \in BOOLEAN : \E select_ok \in BOOLEAN :
           LET selected == IF email_type = "pre_arrival"
                           THEN get_upcoming_bookings_for_email("demo")
                           ELSE get_recent_bookings_for_email("demo")
               ids == {b.booking_id : b \in selected}
           IN IF ~select_ok
              THEN /\ run' = [NoRun EXCEPT !.kind = email_type,
                                           !.dry_run = dry_run,
                                           !.outcome = "raised"]
                   /\ UNCHANGED <<email_bookings, outbox>>
              ELSE IF dry_run
              THEN /\ run' = [NoRun EXCEPT !.kind = email_type,
                                           !.dry_run = TRUE,
                                           !.outcome = "returned",
                                           !.selected = ids]
                   /\ UNCHANGED <<email_bookings, outbox>>
              ELSE \E status_code \in [ids -> {202, 500}] : \E db_ok \in [ids -> BOOLEAN] :
                       LET sent(b) == send_email(b, email_type, status_code[b.booking_id],
                                                 db_ok[b.booking_id])
                       IN /\ outbox' = outbox \cup {Email(b, email_type) :
                                                        b \in {s \in selected : sent(s).accepted}}
                          /\ email_bookings' =
                                 {IF b \in selected /\ sent(b).marked
                                  THEN mark_email_sent(b, email_type)
                                  ELSE b : b \in email_bookings}
                          /\ run' = [kind |-> email_type,
                                     dry_run |-> FALSE,
                                     outcome |-> "returned",
                                     selected |-> ids,
                                     sent_count |->
                                         Cardinality({b \in selected : sent(b).success}),
                                     failed_count |->
                                         Cardinality({b \in selected : ~sent(b).success})]
    /\ UNCHANGED <<has_tracking, today>>
    /\ UNCHANGED <<vars, apiVars, statusVars, authVars, concVars, convertVars, payVars, delVars>>

process_pre_arrival_emails == ProcessEmails("pre_arrival")

process_post_play_emails == ProcessEmails("post_play")

\* The next day begins.
NextDay ==
    /\ today < MaxDays
    /\ today' = today + 1
    /\ UNCHANGED <<email_bookings, has_tracking, outbox, run>>
    /\ UNCHANGED <<vars, apiVars, statusVars, authVars, concVars, convertVars, payVars, delVars>>

EmailInit ==
    /\ email_bookings \in EmailBookingTables
    /\ has_tracking \in {{}, {"pre_arrival"}, EmailTypes}
    /\ today = 0
    /\ outbox = {}
    /\ run = NoRun
    /\ IdleExcept({"email"})

EmailNext ==
    \/ process_pre_arrival_emails
    \/ process_post_play_emails
    \/ NextDay

EmailSpec == EmailInit /\ [][EmailNext]_allVars

\* ---------------------------------------------------- automated email claims

\* The booking an email was sent for.
BookingOf(e) == CHOOSE b \in email_bookings : b.booking_id = e.booking_id

\* C21: every pre-arrival email went to a booking whose tee date was
\* PRE_ARRIVAL_DAYS days after the day of the run, and every post-play email
\* to one whose tee date was POST_PLAY_DAYS days before it.
C21_OnlyOnDayOffset ==
    \A e \in outbox :
        /\ e.email_type = "pre_arrival"
               => BookingOf(e).play_date = e.day + PRE_ARRIVAL_DAYS
        /\ e.email_type = "post_play"
               => BookingOf(e).play_date = e.day - POST_PLAY_DAYS

\* C21, what the runs do select by: every email went to a booking of the
\* statuses Confirmed, Booked, Requested or Inquiry, of the club of the run
\* or of none, with the address cleaned of "mailto:".
C21_OnlyByStatusAndClub ==
    \A e \in outbox :
        /\ BookingOf(e).status \in {"Confirmed", "Booked", "Requested", "Inquiry"}
        /\ BookingOf(e).club \in {"demo", ""}
        /\ e.to = clean_email_address(BookingOf(e).guest_email)

\* A pre-arrival email went to a booking that is played the next day.
C21_Witness ==
    \E e \in outbox :
        /\ e.email_type = "pre_arrival"
        /\ BookingOf(e).play_date = e.day + 1

\* C22: with the tracking column present no booking has had the pre-arrival
\* email twice.
C22_AtMostOnce ==
    "pre_arrival" \in has_tracking
        => \A e \in outbox : e.email_type = "pre_arrival" => e.nth = 1

\* A step in which an email run ran.
EmailRan == today' = today /\ emailVars' # emailVars

\* C22, the parts that hold: with the tracking column present a booking is
\* marked only when it has had the email, a marked booking is not selected
\* by a later run, a run counts as sent only emails SendGrid accepted, and a
\* dry run sends nothing and marks nothing.
C22_MarkedOnlyAfterAccepted ==
    [][EmailRan =>
       /\ "pre_arrival" \in has_tracking
           => \A b \in email_bookings' :
                  b.pre_arrival_email_sent_at # <<>>
                      => \E e \in outbox' : /\ e.booking_id = b.booking_id
                                            /\ e.email_type = "pre_arrival"
       /\ run'.kind = "pre_arrival" /\ "pre_arrival" \in has_tracking
           => \A b \in email_bookings :
                  b.pre_arrival_email_sent_at # <<>> => b.booking_id \notin run'.selected
       /\ run'.sent_count <= Cardinality(outbox' \ outbox)
       /\ run'.dry_run => outbox' = outbox /\ email_bookings' = email_bookings]_allVars

\* SendGrid accepted the pre-arrival email for a booking twice: the database
\* was down when the first was to be marked.
C22_Witness ==
    /\ "pre_arrival" \in has_tracking
    /\ \E e \in outbox : e.email_type = "pre_arrival" /\ e.nth = 2

\* C23: no email run lets an exception escape to the page.
C23_NoExceptionEscapes == run.outcome # "raised"

\* A run for post-play emails ended in an exception.
C23_Witness == run.kind = "post_play" /\ run.outcome = "raised"


\* ---------------------------------------- login and passwords (src/dashboard.py)

\* bcrypt.gensalt(): the salts a hash may be made with.
Salts == {"$2b$a.", "$2b$b."}

RECURSIVE Reversed(_)
Reversed(s) == IF s = "" THEN "" ELSE Reversed(Tail(s)) \o Ch(s, 1)

\* bcrypt.hashpw(password, salt): the salt followed by a digest of the salted
\* password, here the password reversed.
hashpw(password, salt) == salt \o Reversed(password)

\* hash_password(password) with the salt gensalt() drew.
hash_password(password, salt) == hashpw(password, salt)

\* verify_password(password, hashed): bcrypt.checkpw hashes the password with
\* the salt of the hash and compares.
verify_password(password, hashed) ==
    \E salt \in Salts :
        /\ Len(hashed) >= Len(salt)
        /\ SubSeq(hashed, 1, Len(salt)) = salt
        /\ hashpw(password, salt) = hashed

\* The passwords typed into the forms.
Passwords == {"", "short", "temp1234", "golf2024!"}

\* A row of dashboard_users: NULL is "".
User(id, username, password_hash, temp_password, is_active, must_change_password) ==
    [id |-> id,
     username |-> username,
     password_hash |-> password_hash,
     temp_password |-> temp_password,
     customer_id |-> "demo",
     full_name |-> username,
     is_active |-> is_active,
     must_change_password |-> must_change_password]

\* The tables of dashboard_users: maria in every state of her account, and
\* admin, who has a password.
UserTables ==
    {{User(1, "maria", password_hash, temp_password, is_active, must_change_password),
      User(2, "admin", hashpw("temp1234", "$2b$b."), "", TRUE, FALSE)} :
        password_hash \in {"", hashpw("golf2024!", "$2b$a.")},
        temp_password \in {"", "temp1234"},
        is_active \in BOOLEAN,
        must_change_password \in BOOLEAN}

\* The result of authenticate_user.
AuthResult(success, user, must_change_password) ==
    IF success
    THEN [success |-> TRUE, customer_id |-> user.customer_id, full_name |-> user.full_name,
          must_change_password |-> must_change_password, user_id |-> user.id]
    ELSE [success |-> FALSE, customer_id |-> "", full_name |-> "",
          must_change_password |-> FALSE, user_id |-> 0]

\* authenticate_user(username, password) on a table, the database up (db_ok)
\* or down.
authenticate_user(table, username, password, db_ok) ==
    IF ~db_ok \/ ~\E u \in table : u.username = username
    THEN AuthResult(FALSE, <<>>, FALSE)
    ELSE LET user == CHOOSE u \in table : u.username = username
         IN IF ~user.is_active
            THEN AuthResult(FALSE, user, FALSE)
            ELSE IF /\ user.must_change_password
                    /\ user.temp_password # ""
                    /\ password = user.temp_password
            THEN AuthResult(TRUE, user, TRUE)
            ELSE IF /\ user.password_hash # ""
                    /\ verify_password(password, user.password_hash)
            THEN AuthResult(TRUE, user, FALSE)
            ELSE AuthResult(FALSE, user, FALSE)

\* A variant that stores the hash and leaves the temporary password in place.
set_permanent_password_KeepTemp(table, user_id, new_password, salt) ==
    {IF u.id = user_id
     THEN [u EXCEPT !.password_hash = hash_password(new_password, salt)]
     ELSE u : u \in table}

\* set_permanent_password(user_id, new_password): the table after the UPDATE.
set_permanent_password(table, user_id, new_password, salt) ==
    {IF u.id = user_id
     THEN [u EXCEPT !.password_hash = hash_password(new_password, salt),
                    !.temp_password = "",
                    !.must_change_password = FALSE]
     ELSE u : u \in table}

\* logout()
logout == InitialSession

\* A variant of the script that tests authenticated before the password screen.
Render_LoginFirst(s) ==
    IF ~s.authenticated THEN "login"
    ELSE IF s.must_change_password /\ ~s.show_password_change THEN "password_change"
    ELSE "dashboard"

\* The screen a run of the script renders: the password screen and st.stop()
\* when show_password_change, else the login screen and st.stop() when not
\* authenticated, else the dashboard.
Render(s) ==
    IF s.show_password_change THEN "password_change"
    ELSE IF ~s.authenticated THEN "login"
    ELSE "dashboard"

\* The login form is submitted.
Login ==
    /\ screen = "login"
    /\ \E username \in Usernames \cup {"", "nobody"} : \E password \in Passwords :
       \E db_ok \in BOOLEAN :
           LET r == authenticate_user(users, username, password, db_ok)
               ok == username # "" /\ password # "" /\ r.success
           IN /\ auth_op' = [name |-> "login", username |-> username,
                             password |-> password, ok |-> ok]
              /\ session' =
                     IF ~ok THEN session
                     ELSE [authenticated |-> TRUE,
                           customer_id |-> r.customer_id,
                           username |-> username,
                           full_name |-> r.full_name,
                           user_id |-> r.user_id,
                           must_change_password |->
                               IF r.must_change_password THEN TRUE
                               ELSE session.must_change_password,
                           show_password_change |->
                               IF r.must_change_password THEN TRUE
                               ELSE session.show_password_change]
    /\ screen' = Render(session')
    /\ UNCHANGED users
    /\ UNCHANGED <<vars, apiVars, statusVars, emailVars, concVars, convertVars, payVars, delVars>>

\* "Set Password" on the password screen.
SetPassword ==
    /\ screen = "password_change"
    /\ \E new_password \in Passwords : \E confirm_password \in Passwords :
       \E db_ok \in BOOLEAN : \E salt \in Salts :
           LET ok == /\ new_password # "" /\ confirm_password # ""
                     /\ new_password = confirm_password
                     /\ Len(new_password) >= 8
                     /\ db_ok
           IN /\ auth_op' = [name |-> "set_permanent_password",
                             username |-> session.username,
                             password |-> new_password, ok |-> ok]
              /\ users' = IF ok
                          THEN set_permanent_password(users, session.user_id,
                                                      new_password, salt)
                          ELSE users
              /\ session' = IF ok
                            THEN [session EXCEPT !.show_password_change = FALSE,
                                                 !.must_change_password = FALSE]
                            ELSE session
    /\ screen' = Render(session')
    /\ UNCHANGED <<vars, apiVars, statusVars, emailVars, concVars, convertVars, payVars, delVars>>

\* "Cancel" on the password screen.
CancelPassword ==
    /\ screen = "password_change"
    /\ auth_op' = [NoAuthOp EXCEPT !.name = "cancel", !.username = session.username]
    /\ session' = logout
    /\ screen' = Render(session')
    /\ UNCHANGED users
    /\ UNCHANGED <<vars, apiVars, statusVars, emailVars, concVars, convertVars, payVars, delVars>>

\* "Logout" in the sidebar of the dashboard.
Logout ==
    /\ screen = "dashboard"
    /\ auth_op' = [NoAuthOp EXCEPT !.name = "logout", !.username = session.username]
    /\ session' = logout
    /\ screen' = Render(session')
    /\ UNCHANGED users
    /\ UNCHANGED <<vars, apiVars, statusVars, emailVars, concVars, convertVars, payVars, delVars>>

AuthInit ==
    /\ users \in UserTables
    /\ session = InitialSession
    /\ screen = Render(InitialSession)
    /\ auth_op = NoAuthOp
    /\ IdleExcept({"auth"})

AuthNext ==
    \/ Login
    \/ SetPassword
    \/ CancelPassword
    \/ Logout

AuthSpec == AuthInit /\ [][AuthNext]_allVars

\* ----------------------------------------------------- login and password claims

\* The row of a username.
UserNamed(username) == CHOOSE u \in users : u.username = username

\* C24: right after set_permanent_password succeeded, authenticate_user
\* accepts the new password with must_change_password False and no other
\* password, the former temporary one included unless it is the new one; in
\* every state a password is accepted as a temporary one (must_change_password
\* True in the result) only when it is the user's temp_password and the user
\* must change the password, a user who need not change it is accepted only
\* with the permanent password, and an inactive user is never accepted.
C24_PermanentReplacesTemp ==
    /\ auth_op.name = "set_permanent_password" /\ auth_op.ok
           => \A password \in Passwords :
                  LET r == authenticate_user(users, auth_op.username, password, TRUE)
                  IN /\ r.success <=> password = auth_op.password
                     /\ ~r.must_change_password
    /\ \A u \in users : \A password \in Passwords :
           LET r == authenticate_user(users, u.username, password, TRUE)
           IN /\ r.must_change_password
                  => u.must_change_password /\ password = u.temp_password
              /\ r.success /\ ~u.must_change_password
                  => verify_password(password, u.password_hash)
              /\ ~u.is_active => ~r.success

\* maria set a permanent password other than her temporary one, which is no
\* longer accepted.
C24_Witness ==
    /\ auth_op.name = "set_permanent_password" /\ auth_op.ok
    /\ auth_op.username = "maria"
    /\ auth_op.password = "golf2024!"
    /\ ~authenticate_user(users, "maria", "temp1234", TRUE).success
    /\ authenticate_user(users, "maria", "golf2024!", TRUE).success

\* C26: the dashboard is rendered only when authenticated and not
\* show_password_change; show_password_change implies authenticated; while a
\* login with a temporary password has not been followed by a successful
\* set_permanent_password (must_change_password of the session) the dashboard
\* is not rendered, and the user's row says so until then; after logout or
\* Cancel the seven values are the initial ones.
C26_SessionGuards ==
    /\ screen = "dashboard"
           => session.authenticated /\ ~session.show_password_change
    /\ session.show_password_change => session.authenticated
    /\ session.must_change_password
           => /\ screen = "password_change"
              /\ UserNamed(session.username).must_change_password
              /\ UserNamed(session.username).temp_password # ""
    /\ auth_op.name \in {"logout", "cancel"}
           => session = InitialSession /\ screen = "login"

\* maria, logged in with the temporary password, has set her password and
\* sees the dashboard.
C26_Witness ==
    /\ auth_op.name = "set_permanent_password" /\ auth_op.ok
    /\ screen = "dashboard"
    /\ session.username = "maria"


\* ------------------------------------- concurrent POST /api/waitlist/add (src/api.py)

\* The threads of the server that handle a request each.
Threads == {"t1", "t2"}

\* A thread that has no request.
NoHandler == [pc |-> "idle", data |-> PyNone, code |-> 0, waitlist_id |-> ""]

\* The bodies of the concurrent requests: complete ones.
ConcurrentPayloads ==
    {data \in AddPayloads :
        /\ data # PyNone
        /\ \A field \in {"guest_email", "requested_date", "club"} :
               Truthy(dict_get(data, field))
        /\ ~dict_has(data, "priority")}

\* A thread receives a request with the key and a complete body.
Receive(thread) ==
    /\ handlers[thread].pc = "idle"
    /\ \E data \in ConcurrentPayloads :
           handlers' = [handlers EXCEPT ![thread] = [NoHandler EXCEPT !.pc = "received",
                                                                      !.data = data]]
    /\ UNCHANGED apiVars
    /\ UNCHANGED <<vars, statusVars, emailVars, authVars, convertVars, payVars, delVars>>

\* The thread runs the SELECT for an active entry of the key: 409 when there
\* is one.
CheckExisting(thread) ==
    /\ handlers[thread].pc = "received"
    /\ LET existing == SelectActive(waitlist, handlers[thread].data)
       IN IF existing # {}
          THEN \E found \in existing :
                   handlers' = [handlers EXCEPT ![thread].pc = "done",
                                                ![thread].code = 409,
                                                ![thread].waitlist_id = found.waitlist_id]
          ELSE handlers' = [handlers EXCEPT ![thread].pc = "checked"]
    /\ UNCHANGED apiVars
    /\ UNCHANGED <<vars, statusVars, emailVars, authVars, convertVars, payVars, delVars>>

\* The thread builds the waitlist_id, runs the INSERT and commits: 201, or
\* 500 when the waitlist_id exists.
Insert(thread) ==
    /\ handlers[thread].pc = "checked"
    /\ LET data == handlers[thread].data
           waitlist_id == generate_waitlist_id(data, now)
       IN IF \E row \in waitlist : row.waitlist_id = waitlist_id
          THEN /\ handlers' = [handlers EXCEPT ![thread].pc = "done",
                                               ![thread].code = 500]
               /\ UNCHANGED waitlist
          ELSE /\ waitlist' = waitlist \cup {InsertedRow(data, waitlist_id, now)}
               /\ handlers' = [handlers EXCEPT ![thread].pc = "done",
                                               ![thread].code = 201,
                                               ![thread].waitlist_id = waitlist_id]
    /\ UNCHANGED <<API_SECRET_KEY, now, writes, request, response, executed>>
    /\ UNCHANGED <<vars, statusVars, emailVars, authVars, convertVars, payVars, delVars>>

\* A second of the clock passes while requests are in progress.
ConcTick ==
    /\ now < MaxClock
    /\ now' = now + 1
    /\ UNCHANGED <<API_SECRET_KEY, waitlist, writes, request, response, executed>>
    /\ UNCHANGED handlers
    /\ UNCHANGED <<vars, statusVars, emailVars, authVars, convertVars, payVars, delVars>>

ConcInit ==
    /\ API_SECRET_KEY = "your-secret-key-here"
    /\ waitlist \in SeedTables
    /\ now = 0
    /\ writes = 0
    /\ request = NoRequest
    /\ response = NoResponse
    /\ executed = <<>>
    /\ handlers = [thread \in Threads |-> NoHandler]
    /\ IdleExcept({"api", "conc"})

ConcNext ==
    \/ \E thread \in Threads : Receive(thread)
    \/ \E thread \in Threads : CheckExisting(thread)
    \/ \E thread \in Threads : Insert(thread)
    \/ ConcTick

ConcSpec == ConcInit /\ [][ConcNext]_allVars

\* --------------------------------------------------- concurrent add claims

\* Two entries are of one key.
SameEntryKey(a, b) ==
    /\ a.guest_email = b.guest_email
    /\ a.requested_date = b.requested_date
    /\ a.club = b.club

\* C25: the table never holds two entries in 'Waiting' or 'Notified' for one
\* (guest_email, requested_date, club), and of two concurrent adds with one
\* key at most one has returned 201.
C25_OneActivePerKey ==
    /\ \A a \in waitlist : \A b \in waitlist :
           /\ a # b
           /\ a.status \in {"Waiting", "Notified"}
           /\ b.status \in {"Waiting", "Notified"}
           => ~SameEntryKey(a, b)
    /\ handlers # <<>>
           => \A s \in Threads : \A u \in Threads :
                  /\ s # u
                  /\ handlers[s].code = 201
                  /\ handlers[u].code = 201
                  => handlers[s].data # handlers[u].data

\* C25, what holds: two entries of one key that are both 'Waiting' or
\* 'Notified' were made in different seconds (in one second the second
\* INSERT builds the waitlist_id of the first and gets 500).
C25_DuplicatesOnlyAcrossSeconds ==
    \A a \in waitlist : \A b \in waitlist :
        /\ a # b
        /\ a.status \in {"Waiting", "Notified"}
        /\ b.status \in {"Waiting", "Notified"}
        /\ SameEntryKey(a, b)
        => a.created_at # b.created_at

\* Both threads returned 201 for one body and the table holds two 'Waiting'
\* entries of its key.
C25_Witness ==
    /\ handlers # <<>>
    /\ handlers["t1"].code = 201
    /\ handlers["t2"].code = 201
    /\ handlers["t1"].data = handlers["t2"].data
    /\ Cardinality(SelectActive(waitlist, handlers["t1"].data)) = 2


\* ------------------- conversion of waitlist entries and deletion of bookings
\* ------------------- (src/dashboard.py)

\* A row of waitlist as the dashboard reads it.
WaitlistEntry(waitlist_id, status, notes) ==
    [waitlist_id |-> waitlist_id, status |-> status, notes |-> notes]

\* A row of bookings.
BookingRow(booking_id, status, note) ==
    [booking_id |-> booking_id, status |-> status, note |-> note]

\* The waitlist tables of the club at the start.
WaitlistTables ==
    {{WaitlistEntry("WL-1", "Waiting", notes), WaitlistEntry("WL-2", status, "")} :
        notes \in {"", "Window seat"}, status \in {"Waiting", "Notified"}}

\* The bookings tables at the start.
BookingTables == {{}, {BookingRow("BK-7", "Confirmed", "")}}

\* f"Converted from waitlist: {waitlist_entry['waitlist_id']}. {notes}"
ConvertedNote(entry) == "Converted from waitlist: " \o entry.waitlist_id \o ". " \o entry.notes

\* The points at which the database can fail in a conversion.
ConvertFailures == {"none", "connect", "insert", "update", "commit"}

\* A variant on a connection that commits each statement as it is executed.
convert_waitlist_to_booking_Autocommit(entry, t, failure) ==
    LET booking_id == "BOOK-" \o strftime(t)
        taken == \E b \in bookings_table : b.booking_id = booking_id
        inserted == bookings_table \cup {BookingRow(booking_id, "Confirmed", ConvertedNote(entry))}
    IN IF failure \in {"connect", "insert"} \/ taken
       THEN [success |-> FALSE, booking_id |-> "",
             bookings |-> bookings_table, waitlist |-> waitlist_table]
       ELSE IF failure = "update"
       THEN [success |-> FALSE, booking_id |-> "",
             bookings |-> inserted, waitlist |-> waitlist_table]
       ELSE [success |-> failure = "none", booking_id |-> IF failure = "none" THEN booking_id ELSE "",
             bookings |-> inserted,
             waitlist |-> {IF e.waitlist_id = entry.waitlist_id
                           THEN [e EXCEPT !.status = "Converted"]
                           ELSE e : e \in waitlist_table}]

\* convert_waitlist_to_booking(waitlist_entry, tee_time) in second t: the
\* returned pair and the two tables afterwards. The INSERT and the UPDATE are
\* committed together; an exception anywhere (booking_id is the key of
\* bookings, so an id that exists makes the INSERT raise) leaves the
\* transaction uncommitted.
convert_waitlist_to_booking(entry, t, failure) ==
    LET booking_id == "BOOK-" \o strftime(t)
        taken == \E b \in bookings_table : b.booking_id = booking_id
    IN IF failure # "none" \/ taken
       THEN [success |-> FALSE, booking_id |-> "",
             bookings |-> bookings_table, waitlist |-> waitlist_table]
       ELSE [success |-> TRUE, booking_id |-> booking_id,
             bookings |-> bookings_table
                              \cup {BookingRow(booking_id, "Confirmed", ConvertedNote(entry))},
             waitlist |-> {IF e.waitlist_id = entry.waitlist_id
                           THEN [e EXCEPT !.status = "Converted"]
                           ELSE e : e \in waitlist_table}]

\* update_waitlist_status(waitlist_id, new_status): the table after the UPDATE.
update_waitlist_status(waitlist_id, new_status) ==
    {IF e.waitlist_id = waitlist_id THEN [e EXCEPT !.status = new_status] ELSE e :
        e \in waitlist_table}

\* delete_waitlist_entry(waitlist_id) and DELETE /api/waitlist/remove.
delete_waitlist_entry(waitlist_id) ==
    {e \in waitlist_table : e.waitlist_id # waitlist_id}

\* A variant that deletes another booking as well.
delete_booking_All(booking_id) == {}

\* delete_booking(booking_id): the table after the DELETE.
delete_booking(booking_id) ==
    {b \in bookings_table : b.booking_id # booking_id}

\* "Convert to Booking" of an entry the page shows as 'Waiting'.
ConvertToBooking ==
    /\ \E entry \in waitlist_df : \E failure \in ConvertFailures :
           /\ entry.status = "Waiting"
           /\ LET r == convert_waitlist_to_booking(entry, clock, failure)
              IN /\ bookings_table' = r.bookings
                 /\ waitlist_table' = r.waitlist
                 /\ convert_result' = [calls |-> 1 - convert_result.calls,
                                       success |-> r.success,
                                       booking_id |-> r.booking_id,
                                       waitlist_id |-> entry.waitlist_id]
                 /\ waitlist_df' = IF r.success THEN r.waitlist ELSE waitlist_df
    /\ UNCHANGED <<clock, delVars>>
    /\ UNCHANGED <<vars, apiVars, statusVars, emailVars, authVars, concVars, payVars>>

\* "Notify Customer" and "Mark Expired" of an entry the page shows as
\* 'Waiting'.
ChangeEntryStatus ==
    /\ \E entry \in waitlist_df : \E new_status \in {"Notified", "Expired"} :
       \E db_ok \in BOOLEAN :
           /\ entry.status = "Waiting"
           /\ waitlist_table' = IF db_ok
                                THEN update_waitlist_status(entry.waitlist_id, new_status)
                                ELSE waitlist_table
           /\ waitlist_df' = IF db_ok THEN waitlist_table' ELSE waitlist_df
    /\ UNCHANGED <<bookings_table, clock, convert_result, delVars>>
    /\ UNCHANGED <<vars, apiVars, statusVars, emailVars, authVars, concVars, payVars>>

\* DELETE /api/waitlist/remove/<waitlist_id> of the API while the page is
\* on display.
RemoveEntryByApi ==
    /\ \E entry \in waitlist_table :
           waitlist_table' = delete_waitlist_entry(entry.waitlist_id)
    /\ UNCHANGED <<bookings_table, waitlist_df, clock, convert_result, delVars>>
    /\ UNCHANGED <<vars, apiVars, statusVars, emailVars, authVars, concVars, payVars>>

\* The script runs again and loads the waitlist.
ReloadWaitlist ==
    /\ waitlist_df # waitlist_table
    /\ waitlist_df' = waitlist_table
    /\ UNCHANGED <<waitlist_table, bookings_table, clock, convert_result, delVars>>
    /\ UNCHANGED <<vars, apiVars, statusVars, emailVars, authVars, concVars, payVars>>

\* A second of the clock passes.
ClockTick ==
    /\ clock < MaxClock
    /\ clock' = clock + 1
    /\ UNCHANGED <<waitlist_table, bookings_table, waitlist_df, convert_result, delVars>>
    /\ UNCHANGED <<vars, apiVars, statusVars, emailVars, authVars, concVars, payVars>>

\* "Delete Booking" in the Danger Zone of a booking: shown while the flag is
\* False.
ClickDeleteBooking ==
    /\ \E b \in bookings_table :
           /\ b.booking_id \notin confirm_delete
           /\ confirm_delete' = confirm_delete \cup {b.booking_id}
           /\ delete_op' = [button |-> "Delete Booking", booking_id |-> b.booking_id,
                            deleted |-> FALSE]
    /\ UNCHANGED convertVars
    /\ UNCHANGED <<vars, apiVars, statusVars, emailVars, authVars, concVars, payVars>>

\* "Yes, Delete": shown while the flag is True.
ClickYesDelete ==
    /\ \E b \in bookings_table : \E db_ok \in BOOLEAN :
           /\ b.booking_id \in confirm_delete
           /\ bookings_table' = IF db_ok THEN delete_booking(b.booking_id)
                                ELSE bookings_table
           /\ confirm_delete' = IF db_ok THEN confirm_delete \ {b.booking_id}
                                ELSE confirm_delete
           /\ delete_op' = [button |-> "Yes, Delete", booking_id |-> b.booking_id,
                            deleted |-> db_ok]
    /\ UNCHANGED <<waitlist_table, waitlist_df, clock, convert_result>>
    /\ UNCHANGED <<vars, apiVars, statusVars, emailVars, authVars, concVars, payVars>>

\* "Cancel": shown while the flag is True.
ClickCancelDelete ==
    /\ \E b \in bookings_table :
           /\ b.booking_id \in confirm_delete
           /\ confirm_delete' = confirm_delete \ {b.booking_id}
           /\ delete_op' = [button |-> "Cancel", booking_id |-> b.booking_id,
                            deleted |-> FALSE]
    /\ UNCHANGED convertVars
    /\ UNCHANGED <<vars, apiVars, statusVars, emailVars, authVars, concVars, payVars>>

ConvertInit ==
    /\ waitlist_table \in WaitlistTables
    /\ bookings_table \in BookingTables
    /\ waitlist_df = waitlist_table
    /\ clock = 0
    /\ convert_result = NoConvert
    /\ confirm_delete = {}
    /\ delete_op = NoDelete
    /\ IdleExcept({"convert", "del"})

ConvertNext ==
    \/ ConvertToBooking
    \/ ChangeEntryStatus
    \/ RemoveEntryByApi
    \/ ReloadWaitlist
    \/ ClockTick
    \/ ClickDeleteBooking
    \/ ClickYesDelete
    \/ ClickCancelDelete

ConvertSpec == ConvertInit /\ [][ConvertNext]_allVars

\* ------------------------------------------- conversion and deletion claims

\* Booking b was converted from the waitlist entry of the id.
ConvertedFrom(b, waitlist_id) ==
    LET prefix == "Converted from waitlist: " \o waitlist_id \o ". "
    IN /\ Len(b.note) >= Len(prefix)
       /\ SubSeq(b.note, 1, Len(prefix)) = prefix

\* C27: no state has a booking converted from a waitlist entry that is still
\* 'Waiting', or a 'Converted' entry without its booking.
C27_ConvertedPairs ==
    /\ \A b \in bookings_table : \A e \in waitlist_table :
           ConvertedFrom(b, e.waitlist_id) => e.status # "Waiting"
    /\ \A e \in waitlist_table :
           e.status = "Converted"
               => \E b \in bookings_table : ConvertedFrom(b, e.waitlist_id)

\* C27, amended: a call of convert_waitlist_to_booking that returns success
\* has added exactly one booking, 'Confirmed', with the returned booking_id
\* and the note of the entry, and has set the entry's row, if the table still
\* has it, to 'Converted', leaving every other row as it was; a call that
\* fails leaves both tables as they were.
C27_ConvertAllOrNothing ==
    [][convert_result' # convert_result =>
       IF convert_result'.success
       THEN /\ \E b \in bookings_table' :
                   /\ b \notin bookings_table
                   /\ bookings_table' = bookings_table \cup {b}
                   /\ b.status = "Confirmed"
                   /\ b.booking_id = convert_result'.booking_id
                   /\ ConvertedFrom(b, convert_result'.waitlist_id)
            /\ waitlist_table' =
                   {IF e.waitlist_id = convert_result'.waitlist_id
                    THEN [e EXCEPT !.status = "Converted"]
                    ELSE e : e \in waitlist_table}
       ELSE /\ bookings_table' = bookings_table
            /\ waitlist_table' = waitlist_table]_allVars

\* An entry with notes was converted after an earlier conversion had failed:
\* its booking is in the table and the entry is 'Converted'.
C27_Witness ==
    /\ convert_result.success
    /\ convert_result.calls = 0
    /\ \E e \in waitlist_table :
           /\ e.waitlist_id = convert_result.waitlist_id
           /\ e.notes # ""
           /\ e.status = "Converted"
           /\ \E b \in bookings_table :
                  /\ b.booking_id = convert_result.booking_id
                  /\ ConvertedFrom(b, e.waitlist_id)

\* C29: a booking leaves the table only by "Yes, Delete" for it in a run in
\* which its confirm_delete flag was already True, and the flag is False
\* afterwards; "Cancel" sets the flag False and deletes nothing; "Delete
\* Booking" only sets the flag.
C29_TwoStepDelete ==
    [][/\ \A b \in bookings_table :
              b \notin bookings_table'
                  => /\ b.booking_id \in confirm_delete
                     /\ delete_op' = [button |-> "Yes, Delete",
                                      booking_id |-> b.booking_id, deleted |-> TRUE]
                     /\ b.booking_id \notin confirm_delete'
       /\ delete_op' # delete_op /\ delete_op'.button = "Cancel"
              => /\ bookings_table' = bookings_table
                 /\ delete_op'.booking_id \in confirm_delete
                 /\ delete_op'.booking_id \notin confirm_delete'
       /\ delete_op' # delete_op /\ delete_op'.button = "Delete Booking"
              => /\ bookings_table' = bookings_table
                 /\ delete_op'.booking_id \in confirm_delete']_allVars

\* A booking was deleted after its confirmation.
C29_Witness ==
    /\ delete_op.button = "Yes, Delete"
    /\ delete_op.deleted
    /\ delete_op.booking_id \notin confirm_delete
    /\ ~\E b \in bookings_table : b.booking_id = delete_op.booking_id


\* ------------------------------------------- payment requests (src/dashboard.py)

\* The bookings of the payment section.
PayBookingIds == {"BK-7", "BK-8"}

\* The id Stripe gives the n-th payment link, and its url.
StripeLinkId(n) == "plink_" \o Ch("123456789", n)

StripeLinkUrl(link_id) == "https://buy.stripe.com/" \o link_id

\* create_stripe_payment_link(...) in second t when Stripe has made the
\* links so far: the returned dict, or "raised".
create_stripe_payment_link(booking_id, t, links, stripe_ok) ==
    IF ~stripe_ok
    THEN [raised |-> TRUE, payment_link_url |-> "", payment_id |-> "",
          stripe_payment_link_id |-> ""]
    ELSE LET link_id == StripeLinkId(Cardinality(links) + 1)
         IN [raised |-> FALSE,
             payment_link_url |-> StripeLinkUrl(link_id),
             payment_id |-> "PAY-" \o strftime(t) \o "-" \o booking_id,
             stripe_payment_link_id |-> link_id]

\* The row save_payment_record inserts.
PaymentRow(booking_id, payment_data, payment_type) ==
    [payment_id |-> payment_data.payment_id,
     booking_id |-> booking_id,
     payment_type |-> payment_type,
     payment_link_url |-> payment_data.payment_link_url,
     stripe_payment_link_id |-> payment_data.stripe_payment_link_id,
     payment_status |-> "pending"]

\* The points at which the database can fail in save_payment_record.
SaveFailures == {"none", "connect", "insert", "update", "commit"}

\* save_payment_record(...): whether it returned True, and the payments rows
\* and payment_status of the bookings afterwards. The INSERT and the UPDATE
\* are committed together; payment_id is the key of payments.
save_payment_record(booking_id, payment_data, payment_type, failure) ==
    IF failure # "none" \/ \E p \in payments : p.payment_id = payment_data.payment_id
    THEN [saved |-> FALSE, payments |-> payments, payment_status |-> payment_status]
    ELSE [saved |-> TRUE,
          payments |-> payments \cup {PaymentRow(booking_id, payment_data, payment_type)},
          payment_status |-> [payment_status EXCEPT ![booking_id] = "pending"]]

\* The email send_payment_request_email hands to SendGrid.
PaymentEmail(booking_id, payment_link_url) ==
    [booking_id |-> booking_id, payment_link_url |-> payment_link_url]

\* A variant of the button that sends the email as soon as the link exists.
SendPaymentRequestOutcome_EmailFirst(booking_id, payment_type, t, stripe_ok, failure, email_ok) ==
    LET payment_data == create_stripe_payment_link(booking_id, t, payment_links, stripe_ok)
        record == save_payment_record(booking_id, payment_data, payment_type, failure)
        links == payment_links \cup {payment_data.stripe_payment_link_id}
        emails == IF email_ok
                  THEN payment_emails \cup {PaymentEmail(booking_id, payment_data.payment_link_url)}
                  ELSE payment_emails
    IN IF payment_data.raised
       THEN [message |-> "Error", payments |-> payments, payment_status |-> payment_status,
             links |-> payment_links, emails |-> payment_emails]
       ELSE IF ~record.saved
       THEN [message |-> "Failed to save payment record", payments |-> payments,
             payment_status |-> payment_status, links |-> links, emails |-> emails]
       ELSE [message |-> IF email_ok THEN "Payment request sent"
                         ELSE "Payment link created but email failed",
             payments |-> record.payments, payment_status |-> record.payment_status,
             links |-> links, emails |-> emails]

\* The handler of "Send Payment Request": the link is created, then the
\* record saved, then the email sent; the message of the page and the state
\* afterwards.
SendPaymentRequestOutcome(booking_id, payment_type, t, stripe_ok, failure, email_ok) ==
    LET payment_data == create_stripe_payment_link(booking_id, t, payment_links, stripe_ok)
        record == save_payment_record(booking_id, payment_data, payment_type, failure)
        links == payment_links \cup {payment_data.stripe_payment_link_id}
    IN IF payment_data.raised
       THEN [message |-> "Error", payments |-> payments, payment_status |-> payment_status,
             links |-> payment_links, emails |-> payment_emails]
       ELSE IF ~record.saved
       THEN [message |-> "Failed to save payment record", payments |-> payments,
             payment_status |-> payment_status, links |-> links, emails |-> payment_emails]
       ELSE IF ~email_ok
       THEN [message |-> "Payment link created but email failed",
             payments |-> record.payments, payment_status |-> record.payment_status,
             links |-> links, emails |-> payment_emails]
       ELSE [message |-> "Payment request sent",
             payments |-> record.payments, payment_status |-> record.payment_status,
             links |-> links,
             emails |-> payment_emails
                            \cup {PaymentEmail(booking_id, payment_data.payment_link_url)}]

\* "Send Payment Request" of a booking.
SendPaymentRequest ==
    /\ Cardinality(payment_links) < MaxLinks
    /\ \E booking_id \in PayBookingIds : \E payment_type \in {"deposit", "full"} :
       \E stripe_ok \in BOOLEAN : \E failure \in SaveFailures : \E email_ok \in BOOLEAN :
           LET r == SendPaymentRequestOutcome(booking_id, payment_type, pay_clock,
                                              stripe_ok, failure, email_ok)
           IN /\ payments' = r.payments
              /\ payment_status' = r.payment_status
              /\ payment_links' = r.links
              /\ payment_emails' = r.emails
              /\ payment_request' = [calls |-> 1 - payment_request.calls,
                                     booking_id |-> booking_id,
                                     message |-> r.message]
    /\ UNCHANGED pay_clock
    /\ UNCHANGED <<vars, apiVars, statusVars, emailVars, authVars, concVars, convertVars, delVars>>

\* A second of the clock passes.
PayTick ==
    /\ pay_clock < MaxClock
    /\ pay_clock' = pay_clock + 1
    /\ UNCHANGED <<payments, payment_status, payment_links, payment_emails, payment_request>>
    /\ UNCHANGED <<vars, apiVars, statusVars, emailVars, authVars, concVars, convertVars, delVars>>

PayInit ==
    /\ payments = {}
    /\ payment_status \in [PayBookingIds -> {"not_requested", "deposit_paid"}]
    /\ payment_links = {}
    /\ payment_emails = {}
    /\ pay_clock = 0
    /\ payment_request = NoPaymentRequest
    /\ IdleExcept({"pay"})

PayNext ==
    \/ SendPaymentRequest
    \/ PayTick

PaySpec == PayInit /\ [][PayNext]_allVars

\* ---------------------------------------------------- payment request claims

\* C28: a payment request emails the guest only when the link was created
\* and the record saved, the payments row 'pending' and payment_status
\* 'pending' of the booking appearing together; when the link creation raises
\* nothing is saved and no email sent; when the save fails nothing is saved
\* and no email sent; when the email fails the pending record is kept; and
\* every email ever sent names the link of a payments row of its booking.
C28_EmailAfterLinkAndRecord ==
    [][payment_request' # payment_request =>
       LET booking_id == payment_request'.booking_id
           message == payment_request'.message
           added == payments' \ payments
           sent == payment_emails' \ payment_emails
           saved == /\ Cardinality(added) = 1
                    /\ payments \subseteq payments'
                    /\ \A p \in added : /\ p.booking_id = booking_id
                                        /\ p.payment_status = "pending"
                                        /\ p.stripe_payment_link_id \in payment_links'
                    /\ payment_status' = [payment_status EXCEPT ![booking_id] = "pending"]
           nothing == payments' = payments /\ payment_status' = payment_status
       IN /\ payment_emails \subseteq payment_emails'
          /\ sent # {} => saved /\ message = "Payment request sent"
          /\ message = "Error" => nothing /\ sent = {} /\ payment_links' = payment_links
          /\ message = "Failed to save payment record" => nothing /\ sent = {}
          /\ message = "Payment link created but email failed" => saved /\ sent = {}
          /\ message = "Payment request sent"
                 => /\ saved
                    /\ \E p \in added :
                           sent = {PaymentEmail(booking_id, p.payment_link_url)}
          /\ \A e \in payment_emails' :
                 \E p \in payments' : /\ p.booking_id = e.booking_id
                                      /\ p.payment_link_url = e.payment_link_url]_allVars

\* A request whose record could not be saved was followed by one that was
\* saved and sent.
C28_Witness ==
    /\ payment_request.message = "Payment request sent"
    /\ Cardinality(payment_links) = 2
    /\ Cardinality(payments) = 1
    /\ Cardinality(payment_emails) = 1

=============================================================================
